---- MODULE Spec2Model ----
(***************************************************************************)
(* A model of cloud-init's systemd-networkd renderer                       *)
(* (cloudinit/net/networkd.py): the canonicalizer normalize, the section   *)
(* accumulator CfgParser and the Renderer that fills one CfgParser per     *)
(* unit.                                                                   *)
(*                                                                         *)
(* Python values are tagged records [t |-> <type>, v |-> <payload>].  A    *)
(* Python str is a sequence of one-character strings, so that formatting,  *)
(* concatenation and the lexicographic order of list.sort() are computed   *)
(* character by character.  A Python dict is the sequence of its           *)
(* <<key, value>> pairs in insertion order.                                *)
(***************************************************************************)
EXTENDS Integers, Sequences, FiniteSets, TLC

VARIABLES
    conf_dict,   \* CfgParser.conf_dict of the parser being filled
    raised,      \* the exception that ended the run, or "none"
    calls,       \* CfgParser machine: the update calls made so far, in order
    final,       \* CfgParser machine: the last get_final_conf() result
    network_state, \* Renderer: the network state being rendered
    pc,          \* Renderer: the place render_network_state has reached
    vlan_link,   \* _render_content: vlan_link
    bond_link,   \* _render_content: bond_link
    ret_dict,    \* _render_content: ret_dict
    idx,         \* _render_content: position in ns.iter_interfaces()
    cur_iface,   \* _render_content: iface, the interface of the current pass
    cur_dhcp,    \* parse_subnets: dhcp
    cur_rid,     \* parse_subnets: rid
    sn,          \* parse_subnets: position in iface["subnets"]
    pending,     \* render_network_state: the units not yet written
    files,       \* the files written, in order: [fn, conf]
    norm_in,     \* normalize: the argument
    norm_out,    \* normalize: the value returned, <<>> before the call
    opc_pc,      \* read_opc_metadata: the place the call has reached
    metadata_patterns, \* read_opc_metadata: metadata_patterns
    fetch_vnics_data,  \* read_opc_metadata: fetch_vnics_data
    urls,        \* read_opc_metadata: urls
    tried,       \* the requests wait_for_url made, in order: [url, ok]
    opc_round,   \* wait_for_url: the number of passes over its urls begun
    url_that_worked,   \* read_opc_metadata: url_that_worked, <<>> for False
    opc_ret,     \* read_opc_metadata: the value returned, <<>> before the return
    ora_pc,      \* DataSourceOracle: "new", then "crawled" or "failed" by _get_data
    _network_config,         \* DataSourceOracle._network_config
    _vnics_data,             \* DataSourceOracle._vnics_data
    _network_config_source,  \* the initramfs source: [files, rendered]
    ds_cfg,      \* DataSourceOracle.ds_cfg
    imds,        \* the metadata service: [answers, vnics]
    nc_calls,    \* the number of reads of the network_config property
    nc_ret       \* the value the last read of network_config returned

cfg_vars == <<calls, final>>
render_vars == <<network_state, pc, vlan_link, bond_link, ret_dict, idx, cur_iface,
                 cur_dhcp, cur_rid, sn, pending, files>>
norm_vars == <<norm_in, norm_out>>
opc_vars == <<opc_pc, metadata_patterns, fetch_vnics_data, urls, tried, opc_round,
              url_that_worked, opc_ret>>
ora_vars == <<ora_pc, _network_config, _vnics_data, _network_config_source, ds_cfg, imds,
              nc_calls, nc_ret>>
aux_vars == <<norm_vars, opc_vars, ora_vars>>
vars == <<conf_dict, raised, cfg_vars, render_vars, aux_vars>>

\* normalize has not been called
NormIdle == norm_in = <<>> /\ norm_out = <<>>

\* read_opc_metadata has not been called
OpcIdle ==
    /\ opc_pc = "idle" /\ metadata_patterns = <<>> /\ fetch_vnics_data = FALSE
    /\ urls = <<>> /\ tried = <<>> /\ opc_round = 0 /\ url_that_worked = <<>>
    /\ opc_ret = <<>>

\* no DataSourceOracle has been constructed
OraIdle ==
    /\ ora_pc = "idle" /\ _network_config = <<>> /\ _vnics_data = <<>>
    /\ _network_config_source = <<>> /\ ds_cfg = <<>> /\ imds = <<>>
    /\ nc_calls = 0 /\ nc_ret = <<>>

\* the machines other than the CfgParser and the Renderer are idle
AuxIdle == NormIdle /\ OpcIdle /\ OraIdle

----------------------------------------------------------------------------
(* Characters and strings *)

\* ord(c) of the characters the model uses
Ord ==
    "\n" :> 10 @@ " " :> 32 @@ "-" :> 45 @@ "." :> 46 @@ "/" :> 47 @@ "0" :> 48 @@
    "1" :> 49 @@ "2" :> 50 @@ "3" :> 51 @@ "4" :> 52 @@ "5" :> 53 @@ "6" :> 54 @@
    "7" :> 55 @@ "8" :> 56 @@ "9" :> 57 @@ ":" :> 58 @@ "=" :> 61 @@ "A" :> 65 @@
    "B" :> 66 @@ "C" :> 67 @@ "D" :> 68 @@ "E" :> 69 @@ "F" :> 70 @@ "G" :> 71 @@
    "H" :> 72 @@ "I" :> 73 @@ "J" :> 74 @@ "K" :> 75 @@ "L" :> 76 @@ "M" :> 77 @@
    "N" :> 78 @@ "O" :> 79 @@ "P" :> 80 @@ "Q" :> 81 @@ "R" :> 82 @@ "S" :> 83 @@
    "T" :> 84 @@ "U" :> 85 @@ "V" :> 86 @@ "W" :> 87 @@ "X" :> 88 @@ "Y" :> 89 @@
    "Z" :> 90 @@ "[" :> 91 @@ "]" :> 93 @@ "_" :> 95 @@ "a" :> 97 @@ "b" :> 98 @@
    "c" :> 99 @@ "d" :> 100 @@ "e" :> 101 @@ "f" :> 102 @@ "g" :> 103 @@ "h" :> 104 @@
    "i" :> 105 @@ "j" :> 106 @@ "k" :> 107 @@ "l" :> 108 @@ "m" :> 109 @@ "n" :> 110 @@
    "o" :> 111 @@ "p" :> 112 @@ "q" :> 113 @@ "r" :> 114 @@ "s" :> 115 @@ "t" :> 116 @@
    "u" :> 117 @@ "v" :> 118 @@ "w" :> 119 @@ "x" :> 120 @@ "y" :> 121 @@ "z" :> 122

\* the string literals of the source, character by character
Lit == [
    Match |-> <<"M", "a", "t", "c", "h">>,
    Link |-> <<"L", "i", "n", "k">>,
    Network |-> <<"N", "e", "t", "w", "o", "r", "k">>,
    DHCPv4 |-> <<"D", "H", "C", "P", "v", "4">>,
    DHCPv6 |-> <<"D", "H", "C", "P", "v", "6">>,
    Address |-> <<"A", "d", "d", "r", "e", "s", "s">>,
    Route |-> <<"R", "o", "u", "t", "e">>,
    NetDev |-> <<"N", "e", "t", "D", "e", "v">>,
    VLAN |-> <<"V", "L", "A", "N">>,
    Bond |-> <<"B", "o", "n", "d">>,
    Resolve |-> <<"R", "e", "s", "o", "l", "v", "e">>,
    DNS |-> <<"D", "N", "S">>,
    Gateway |-> <<"G", "a", "t", "e", "w", "a", "y">>,
    Destination |-> <<"D", "e", "s", "t", "i", "n", "a", "t", "i", "o", "n">>,
    r0 |-> <<"r", "0">>,
    a1 |-> <<"a", "1">>,
    Name |-> <<"N", "a", "m", "e">>,
    Driver |-> <<"D", "r", "i", "v", "e", "r">>,
    MACAddress |-> <<"M", "A", "C", "A", "d", "d", "r", "e", "s", "s">>,
    MTUBytes |-> <<"M", "T", "U", "B", "y", "t", "e", "s">>,
    RequiredForOnline |-> <<"R", "e", "q", "u", "i", "r", "e", "d", "F", "o", "r", "O", "n", "l", "i", "n", "e">>,
    no |-> <<"n", "o">>,
    yes |-> <<"y", "e", "s">>,
    physical |-> <<"p", "h", "y", "s", "i", "c", "a", "l">>,
    Metric |-> <<"M", "e", "t", "r", "i", "c">>,
    Domains |-> <<"D", "o", "m", "a", "i", "n", "s">>,
    DHCP |-> <<"D", "H", "C", "P">>,
    ipv4 |-> <<"i", "p", "v", "4">>,
    ipv6 |-> <<"i", "p", "v", "6">>,
    IPv6AcceptRA |-> <<"I", "P", "v", "6", "A", "c", "c", "e", "p", "t", "R", "A">>,
    GatewayOnLink |-> <<"G", "a", "t", "e", "w", "a", "y", "O", "n", "L", "i", "n", "k">>,
    UseDomains |-> <<"U", "s", "e", "D", "o", "m", "a", "i", "n", "s">>,
    route |-> <<"r", "o", "u", "t", "e">>,
    dhcp4 |-> <<"d", "h", "c", "p", "4">>,
    dhcp |-> <<"d", "h", "c", "p">>,
    dhcp6 |-> <<"d", "h", "c", "p", "6">>,
    static |-> <<"s", "t", "a", "t", "i", "c">>,
    UseDNS |-> <<"U", "s", "e", "D", "N", "S">>,
    UseHostname |-> <<"U", "s", "e", "H", "o", "s", "t", "n", "a", "m", "e">>,
    UseNTP |-> <<"U", "s", "e", "N", "T", "P">>,
    SendHostname |-> <<"S", "e", "n", "d", "H", "o", "s", "t", "n", "a", "m", "e">>,
    Hostname |-> <<"H", "o", "s", "t", "n", "a", "m", "e">>,
    RouteMetric |-> <<"R", "o", "u", "t", "e", "M", "e", "t", "r", "i", "c">>,
    UseMTU |-> <<"U", "s", "e", "M", "T", "U">>,
    UseRoutes |-> <<"U", "s", "e", "R", "o", "u", "t", "e", "s">>,
    Kind |-> <<"K", "i", "n", "d">>,
    vlan |-> <<"v", "l", "a", "n">>,
    bond |-> <<"b", "o", "n", "d">>,
    Id |-> <<"I", "d">>,
    macaddress |-> <<"m", "a", "c", "a", "d", "d", "r", "e", "s", "s">>,
    vlan_netdev |-> <<"v", "l", "a", "n", "_", "n", "e", "t", "d", "e", "v">>,
    bond_netdev |-> <<"b", "o", "n", "d", "_", "n", "e", "t", "d", "e", "v">>,
    Mode |-> <<"M", "o", "d", "e">>,
    MIIMonitorSec |-> <<"M", "I", "I", "M", "o", "n", "i", "t", "o", "r", "S", "e", "c">>,
    ms |-> <<"m", "s">>,
    UpDelaySec |-> <<"U", "p", "D", "e", "l", "a", "y", "S", "e", "c">>,
    DownDelaySec |-> <<"D", "o", "w", "n", "D", "e", "l", "a", "y", "S", "e", "c">>,
    ARPIntervalSec |-> <<"A", "R", "P", "I", "n", "t", "e", "r", "v", "a", "l", "S", "e", "c">>,
    ARPIPTargets |-> <<"A", "R", "P", "I", "P", "T", "a", "r", "g", "e", "t", "s">>,
    ARPValidate |-> <<"A", "R", "P", "V", "a", "l", "i", "d", "a", "t", "e">>,
    ARPAllTargets |-> <<"A", "R", "P", "A", "l", "l", "T", "a", "r", "g", "e", "t", "s">>,
    PrimaryReselectPolicy |-> <<"P", "r", "i", "m", "a", "r", "y", "R", "e", "s", "e", "l", "e", "c", "t", "P", "o", "l", "i", "c", "y">>,
    LACPTransmitRate |-> <<"L", "A", "C", "P", "T", "r", "a", "n", "s", "m", "i", "t", "R", "a", "t", "e">>,
    TransmitHashPolicy |-> <<"T", "r", "a", "n", "s", "m", "i", "t", "H", "a", "s", "h", "P", "o", "l", "i", "c", "y">>,
    AdSelect |-> <<"A", "d", "S", "e", "l", "e", "c", "t">>,
    MinLinks |-> <<"M", "i", "n", "L", "i", "n", "k", "s">>,
    AllSlavesActive |-> <<"A", "l", "l", "S", "l", "a", "v", "e", "s", "A", "c", "t", "i", "v", "e">>,
    prefix_fn |-> <<"1", "0", "-", "c", "l", "o", "u", "d", "-", "i", "n", "i", "t", "-">>,
    ext_network |-> <<".", "n", "e", "t", "w", "o", "r", "k">>,
    ext_netdev |-> <<".", "n", "e", "t", "d", "e", "v">>,
    network_conf_dir |-> <<"/", "e", "t", "c", "/", "s", "y", "s", "t", "e", "m", "d", "/", "n", "e", "t", "w", "o", "r", "k", "/">>,
    true |-> <<"t", "r", "u", "e">>,
    false |-> <<"f", "a", "l", "s", "e">>,
    on |-> <<"o", "n">>,
    off |-> <<"o", "f", "f">>,
    eth0 |-> <<"e", "t", "h", "0">>,
    eth1 |-> <<"e", "t", "h", "1">>,
    id0 |-> <<"i", "d", "0">>,
    v1 |-> <<"v", "1">>,
    v2 |-> <<"v", "2">>,
    v3 |-> <<"v", "3">>,
    v4 |-> <<"v", "4">>,
    v5 |-> <<"v", "5">>,
    b0 |-> <<"b", "0">>,
    b1 |-> <<"b", "1">>,
    ip_a |-> <<"1", "9", "2", ".", "0", ".", "2", ".", "1", "0">>,
    gw_in |-> <<"1", "9", "2", ".", "0", ".", "2", ".", "1">>,
    gw_near |-> <<"1", "9", "2", ".", "0", ".", "2", ".", "9">>,
    gw_out |-> <<"1", "9", "8", ".", "5", "1", ".", "1", "0", "0", ".", "1">>,
    net1 |-> <<"1", "0", ".", "1", ".", "0", ".", "0">>,
    net2 |-> <<"1", "0", ".", "2", ".", "0", ".", "0">>,
    ns1 |-> <<"9", ".", "9", ".", "9", ".", "9">>,
    mac1 |-> <<"A", "A", ":", "B", "B", ":", "C", "C", ":", "0", "0", ":", "0", "0", ":", "0", "1">>,
    maybe |-> <<"m", "a", "y", "b", "e">>,
    No |-> <<"N", "o">>,
    example |-> <<"e", "x", "a", "m", "p", "l", "e", ".", "o", "r", "g">>,
    ns2 |-> <<"8", ".", "8", ".", "8", ".", "8">>,
    corp |-> <<"c", "o", "r", "p", ".", "e", "x", "a", "m", "p", "l", "e">>,
    virtio |-> <<"v", "i", "r", "t", "i", "o">>,
    IPV4_METADATA_PATTERN |-> <<"h", "t", "t", "p", ":", "/", "/", "1", "6", "9", ".", "2", "5", "4", ".", "1", "6", "9", ".", "2", "5", "4", "/", "o", "p", "c", "/", "v", "{", "v", "e", "r", "s", "i", "o", "n", "}", "/", "{", "p", "a", "t", "h", "}", "/">>,
    IPV6_METADATA_PATTERN |-> <<"h", "t", "t", "p", ":", "/", "/", "[", "f", "d", "0", "0", ":", "c", "1", ":", ":", "a", "9", "f", "e", ":", "a", "9", "f", "e", "]", "/", "o", "p", "c", "/", "v", "{", "v", "e", "r", "s", "i", "o", "n", "}", "/", "{", "p", "a", "t", "h", "}", "/">>,
    fmt_version |-> <<"{", "v", "e", "r", "s", "i", "o", "n", "}">>,
    fmt_path |-> <<"{", "p", "a", "t", "h", "}">>,
    instance |-> <<"i", "n", "s", "t", "a", "n", "c", "e">>,
    vnics |-> <<"v", "n", "i", "c", "s">>,
    opc_v2 |-> <<"/", "o", "p", "c", "/", "v", "2", "/">>,
    host4 |-> <<"h", "t", "t", "p", ":", "/", "/", "1", "6", "9", ".", "2", "5", "4", ".", "1", "6", "9", ".", "2", "5", "4">>,
    host6 |-> <<"h", "t", "t", "p", ":", "/", "/", "[", "f", "d", "0", "0", ":", "c", "1", ":", ":", "a", "9", "f", "e", ":", "a", "9", "f", "e", "]">>,
    opc_v |-> <<"/", "o", "p", "c", "/", "v">>,
    cidr_a |-> <<"1", "9", "2", ".", "0", ".", "2", ".", "0", "/", "2", "4">>,
    mac2 |-> <<"0", "2", ":", "0", "0", ":", "1", "7", ":", "0", "0", ":", "0", "0", ":", "0", "2">>,
    mac3 |-> <<"0", "2", ":", "0", "0", ":", "1", "7", ":", "0", "0", ":", "0", "0", ":", "0", "3">>,
    ip6_a |-> <<"2", "0", "0", "1", ":", "d", "b", "8", ":", ":", "1", "0">>,
    ip6_gw |-> <<"f", "e", "8", "0", ":", ":", "1">>
]

\* str.__lt__: lexicographic by code point, a proper prefix first
StrLess(a, b) ==
    LET n == IF Len(a) < Len(b) THEN Len(a) ELSE Len(b)
        D == {i \in 1..n : a[i] # b[i]}
    IN  IF D = {} THEN Len(a) < Len(b)
        ELSE LET i == CHOOSE i \in D : \A j \in D : i <= j
             IN  Ord[a[i]] < Ord[b[i]]

RECURSIVE Digits(_)
\* the decimal digits of a natural number
Digits(n) ==
    LET d == <<"0", "1", "2", "3", "4", "5", "6", "7", "8", "9">>[(n % 10) + 1]
    IN  IF n < 10 THEN <<d>> ELSE Append(Digits(n \div 10), d)

----------------------------------------------------------------------------
(* Python values *)

Str(s)   == [t |-> "str", v |-> s]
Num(n)   == [t |-> "int", v |-> n]
Bool(b)  == [t |-> "bool", v |-> b]
None     == [t |-> "none", v |-> <<>>]
List(xs) == [t |-> "list", v |-> xs]
Dict(kv) == [t |-> "dict", v |-> kv]

\* format(x) / str(x), as the f-strings of the source apply it
PyStr(x) ==
    CASE x.t = "str"  -> x.v
      [] x.t = "int"  -> IF x.v < 0 THEN <<"-">> \o Digits(-x.v) ELSE Digits(x.v)
      [] x.t = "bool" -> IF x.v THEN <<"T", "r", "u", "e">>
                                ELSE <<"F", "a", "l", "s", "e">>
      [] x.t = "none" -> <<"N", "o", "n", "e">>

\* bool(x): the truth value an `if x:` tests
Truthy(x) ==
    CASE x.t = "str"  -> x.v # <<>>
      [] x.t = "int"  -> x.v # 0
      [] x.t = "bool" -> x.v
      [] x.t = "none" -> FALSE
      [] x.t = "list" -> x.v # <<>>
      [] x.t = "dict" -> x.v # <<>>

(* dict operations; d is a Dict, its keys are strings *)
DictHas(d, k) == \E i \in 1..Len(d.v) : d.v[i][1] = k
DictGet(d, k) == d.v[CHOOSE i \in 1..Len(d.v) : d.v[i][1] = k][2]
DictKeys(d)   == [i \in 1..Len(d.v) |-> d.v[i][1]]
\* d[k] = x: an existing key keeps its place, a new key goes last
DictSet(d, k, x) ==
    IF DictHas(d, k)
    THEN Dict([i \in 1..Len(d.v) |-> IF d.v[i][1] = k THEN <<k, x>> ELSE d.v[i]])
    ELSE Dict(Append(d.v, <<k, x>>))

RECURSIVE Comparable(_, _)
\* whether x < y is defined (no TypeError)
Comparable(x, y) ==
    CASE x.t = "str" /\ y.t = "str" -> TRUE
      [] x.t \in {"int", "bool"} /\ y.t \in {"int", "bool"} -> TRUE
      [] x.t = "list" /\ y.t = "list" ->
           LET n == IF Len(x.v) < Len(y.v) THEN Len(x.v) ELSE Len(y.v)
               D == {i \in 1..n : x.v[i] # y.v[i]}
           IN  D = {} \/ LET i == CHOOSE i \in D : \A j \in D : i <= j
                         IN  Comparable(x.v[i], y.v[i])
      [] OTHER -> FALSE

RECURSIVE PyLess(_, _)
\* x < y for comparable x, y
PyLess(x, y) ==
    CASE x.t = "str" -> StrLess(x.v, y.v)
      [] x.t \in {"int", "bool"} ->
           LET num(z) == IF z.t = "bool" THEN (IF z.v THEN 1 ELSE 0) ELSE z.v
           IN  num(x) < num(y)
      [] x.t = "list" ->
           LET n == IF Len(x.v) < Len(y.v) THEN Len(x.v) ELSE Len(y.v)
               D == {i \in 1..n : x.v[i] # y.v[i]}
           IN  IF D = {} THEN Len(x.v) < Len(y.v)
               ELSE LET i == CHOOSE i \in D : \A j \in D : i <= j
                    IN  PyLess(x.v[i], y.v[i])

RECURSIVE InsertSorted(_, _)
\* x put after the last element of the ascending xs that is not above it
InsertSorted(xs, x) ==
    IF xs = <<>> THEN <<x>>
    ELSE IF PyLess(x, xs[Len(xs)])
         THEN Append(InsertSorted(SubSeq(xs, 1, Len(xs) - 1), x), xs[Len(xs)])
         ELSE Append(xs, x)

RECURSIVE SortList(_)
\* list.sort() on mutually comparable elements: ascending and stable
SortList(xs) ==
    IF xs = <<>> THEN <<>>
    ELSE InsertSorted(SortList(SubSeq(xs, 1, Len(xs) - 1)), xs[Len(xs)])

\* the list as it is, never sorted
PySorted_asis(xs) == xs

\* sorted(xs) inside try/except TypeError: the list itself when the sort raises
PySorted(xs) ==
    IF \A i, j \in 1..Len(xs) : i < j => Comparable(xs[i], xs[j])
    THEN SortList(xs)
    ELSE xs

RECURSIVE Dedup(_)
\* list(dict.fromkeys(xs)): the first occurrence of every element, in order
Dedup(xs) ==
    IF xs = <<>> THEN <<>>
    ELSE LET init == Dedup(SubSeq(xs, 1, Len(xs) - 1))
             x == xs[Len(xs)]
         IN  IF \E i \in 1..Len(init) : init[i] = x THEN init ELSE Append(init, x)

----------------------------------------------------------------------------
(* normalize *)

RECURSIVE _normalize_value(_)
_normalize_value(data) ==
    CASE data.t = "dict" ->
           LET keys == SortList([i \in 1..Len(data.v) |-> Str(data.v[i][1])])
           IN  Dict([i \in 1..Len(keys) |->
                       <<keys[i].v, _normalize_value(DictGet(data, keys[i].v))>>])
      [] data.t = "list" ->
           List(PySorted([i \in 1..Len(data.v) |->
                            IF data.v[i].t \in {"dict", "list"}
                            THEN _normalize_value(data.v[i])
                            ELSE data.v[i]]))
      [] OTHER -> data

\* the top-level keys keep their order; every value is normalized
normalize(data) ==
    Dict([i \in 1..Len(data.v) |-> <<data.v[i][1], _normalize_value(data.v[i][2])>>])

----------------------------------------------------------------------------
(* CfgParser *)

\* CfgParser.__init__: the fixed sections; only Route holds a dict
CfgParser_init ==
    Dict(<< <<Lit.Match, List(<<>>)>>,
            <<Lit.Link, List(<<>>)>>,
            <<Lit.Network, List(<<>>)>>,
            <<Lit.DHCPv4, List(<<>>)>>,
            <<Lit.DHCPv6, List(<<>>)>>,
            <<Lit.Address, List(<<>>)>>,
            <<Lit.Route, Dict(<<>>)>>,
            <<Lit.NetDev, List(<<>>)>>,
            <<Lit.VLAN, List(<<>>)>>,
            <<Lit.Bond, List(<<>>)>> >>)

\* f"{key}={val}"
KeyValue(key, val) == Str(key \o <<"=">> \o PyStr(val))

\* update_section raises AttributeError when conf_dict[sec] is the Route dict,
\* which has no append; it raises before it changes anything
update_section_raises(cd, sec) ==
    DictHas(cd, sec) /\ DictGet(cd, sec).t = "dict"

\* update_section with the line assigned instead of appended
update_section_overwrite(cd, sec, key, val) ==
    IF DictHas(cd, sec) THEN DictSet(cd, sec, List(<<KeyValue(key, val)>>)) ELSE cd

\* update_section without the dict.fromkeys() pass
update_section_nodedup(cd, sec, key, val) ==
    IF DictHas(cd, sec)
    THEN DictSet(cd, sec, List(SortList(Append(DictGet(cd, sec).v, KeyValue(key, val)))))
    ELSE cd

\* update_section that creates the section it does not find
update_section_setdefault(cd, sec, key, val) ==
    LET cur == IF DictHas(cd, sec) THEN DictGet(cd, sec).v ELSE <<>>
    IN  DictSet(cd, sec, List(SortList(Dedup(Append(cur, KeyValue(key, val))))))

\* update_section on a section that does not raise: append, dedup, sort;
\* a name that is no key of conf_dict matches no k and changes nothing
update_section(cd, sec, key, val) ==
    IF DictHas(cd, sec)
    THEN DictSet(cd, sec,
             List(SortList(Dedup(Append(DictGet(cd, sec).v, KeyValue(key, val))))))
    ELSE cd

\* update_route_section raises TypeError when conf_dict[sec] is a list
\* (a list cannot be indexed by rid); it raises before it changes anything
update_route_section_raises(cd, sec) ==
    DictHas(cd, sec) /\ DictGet(cd, sec).t = "list"

\* update_route_section on a section that does not raise
update_route_section(cd, sec, rid, key, val) ==
    IF DictHas(cd, sec)
    THEN LET routes == DictGet(cd, sec)
             cur == IF DictHas(routes, rid) THEN DictGet(routes, rid).v ELSE <<>>
         IN  DictSet(cd, sec,
                 DictSet(routes, rid,
                     List(SortList(Dedup(Append(cur, KeyValue(key, val)))))))
    ELSE cd

RECURSIVE Flatten(_)
\* the concatenation of a sequence of strings
Flatten(ss) ==
    IF ss = <<>> THEN <<>> ELSE Flatten(SubSeq(ss, 1, Len(ss) - 1)) \o ss[Len(ss)]

\* f"[{k}]\n"
Header(k) == <<"[">> \o k \o <<"]", "\n">>

\* f"{e}\n" for every e of sorted(v)
SortedLines(v) ==
    LET s == SortList(v) IN Flatten([i \in 1..Len(s) |-> s[i].v \o <<"\n">>])

\* SectionText with the Address lines grouped under one header
SectionText_grouped(k, v) ==
    IF ~Truthy(v) THEN <<>>
    ELSE IF k = Lit.Route
    THEN LET ns == SortList([i \in 1..Len(v.v) |-> Str(v.v[i][1])])
         IN  Flatten([i \in 1..Len(ns) |->
                 Header(k) \o SortedLines(DictGet(v, ns[i].v).v) \o <<"\n">>])
    ELSE Header(k) \o SortedLines(v.v) \o <<"\n">>

\* the text one (k, v) item of conf_dict adds to contents
SectionText(k, v) ==
    IF ~Truthy(v) THEN <<>>
    ELSE IF k = Lit.Address
    THEN LET s == SortList(v.v)
         IN  Flatten([i \in 1..Len(s) |-> Header(k) \o s[i].v \o <<"\n", "\n">>])
    ELSE IF k = Lit.Route
    THEN LET ns == SortList([i \in 1..Len(v.v) |-> Str(v.v[i][1])])
         IN  Flatten([i \in 1..Len(ns) |->
                 Header(k) \o SortedLines(DictGet(v, ns[i].v).v) \o <<"\n">>])
    ELSE Header(k) \o SortedLines(v.v) \o <<"\n">>

\* get_final_conf: conf_dict is replaced by its normal form, and the sections
\* are written in the order of sorted(conf_dict.items())
get_final_conf(cd) ==
    LET nd == normalize(cd)
        ks == SortList([i \in 1..Len(nd.v) |-> Str(nd.v[i][1])])
    IN  [conf_dict |-> nd,
         contents |-> Flatten([i \in 1..Len(ks) |->
                          SectionText(ks[i].v, DictGet(nd, ks[i].v))])]

----------------------------------------------------------------------------
(* The CfgParser machine: any sequence of update calls on a fresh parser,  *)
(* with get_final_conf() called at any point.                              *)

MaxCalls == 3

\* the calls the machine draws from: lines for two list sections and for two
\* route identifiers, the greater line listed first, and the calls on a
\* section of the other kind or of no kind
SectionCalls ==
    {[op |-> "update_section", sec |-> c[1], rid |-> <<>>, key |-> Lit.DNS,
      val |-> Str(c[2])] :
        c \in {<<Lit.Address, <<"b">>>>, <<Lit.Address, <<"a">>>>,
               <<Lit.Network, <<"b">>>>, <<Lit.Route, <<"b">>>>,
               <<Lit.Resolve, <<"b">>>>}}
RouteCalls ==
    {[op |-> "update_route_section", sec |-> c[1], rid |-> c[2], key |-> c[3],
      val |-> Str(<<"b">>)] :
        c \in {<<Lit.Route, Lit.r0, Lit.Gateway>>, <<Lit.Route, Lit.r0, Lit.Destination>>,
               <<Lit.Route, Lit.a1, Lit.Gateway>>, <<Lit.Network, Lit.r0, Lit.Gateway>>}}

NoText == [valid |-> FALSE, text |-> <<>>]

\* the Renderer's variables while no render runs
RenderIdle ==
    /\ network_state = <<>> /\ pc = "idle" /\ vlan_link = Dict(<<>>) /\ bond_link = Dict(<<>>)
    /\ ret_dict = Dict(<<>>) /\ idx = 1 /\ cur_iface = <<>> /\ cur_dhcp = Lit.no /\ cur_rid = 0
    /\ sn = 1 /\ pending = <<>> /\ files = <<>>

InitCfgParser ==
    /\ conf_dict = CfgParser_init
    /\ calls = <<>>
    /\ raised = "none"
    /\ final = NoText
    /\ RenderIdle
    /\ AuxIdle

UpdateSection ==
    \E c \in SectionCalls :
        /\ raised = "none"
        /\ Len(calls) < MaxCalls
        /\ calls' = Append(calls, c)
        /\ IF update_section_raises(conf_dict, c.sec)
           THEN raised' = "AttributeError" /\ UNCHANGED conf_dict
           ELSE /\ conf_dict' = update_section(conf_dict, c.sec, c.key, c.val)
                /\ UNCHANGED raised
        /\ final' = NoText
        /\ UNCHANGED <<render_vars, aux_vars>>

UpdateRouteSection ==
    \E c \in RouteCalls :
        /\ raised = "none"
        /\ Len(calls) < MaxCalls
        /\ calls' = Append(calls, c)
        /\ IF update_route_section_raises(conf_dict, c.sec)
           THEN raised' = "TypeError" /\ UNCHANGED conf_dict
           ELSE /\ conf_dict' =
                      update_route_section(conf_dict, c.sec, c.rid, c.key, c.val)
                /\ UNCHANGED raised
        /\ final' = NoText
        /\ UNCHANGED <<render_vars, aux_vars>>

GetFinalConf ==
    /\ raised = "none"
    /\ ~final.valid
    /\ LET r == get_final_conf(conf_dict)
       IN  /\ conf_dict' = r.conf_dict
           /\ final' = [valid |-> TRUE, text |-> r.contents]
    /\ UNCHANGED <<calls, raised, render_vars, aux_vars>>

NextCfgParser == UpdateSection \/ UpdateRouteSection \/ GetFinalConf

SpecCfgParser == InitCfgParser /\ [][NextCfgParser]_vars

----------------------------------------------------------------------------
(* Reading a unit's text back *)

RECURSIVE SplitLines(_)
\* text.split("\n") without the empty tail a final "\n" leaves
SplitLines(s) ==
    IF s = <<>> THEN <<>>
    ELSE LET N == {i \in 1..Len(s) : s[i] = "\n"}
         IN  IF N = {} THEN <<s>>
             ELSE LET i == CHOOSE i \in N : \A j \in N : i <= j
                  IN  <<SubSeq(s, 1, i - 1)>> \o SplitLines(SubSeq(s, i + 1, Len(s)))

RECURSIVE SplitStanzas(_)
\* the runs of lines that the blank lines end
SplitStanzas(ls) ==
    IF ls = <<>> THEN <<>>
    ELSE LET B == {i \in 1..Len(ls) : ls[i] = <<>>}
         IN  IF B = {} THEN <<ls>>
             ELSE LET i == CHOOSE i \in B : \A j \in B : i <= j
                  IN  <<SubSeq(ls, 1, i - 1)>> \o SplitStanzas(SubSeq(ls, i + 1, Len(ls)))

\* the stanzas of a unit's text: each <<header, line, ...>>
Stanzas(text) == SplitStanzas(SplitLines(text))

\* the text in which every given stanza is followed by exactly one blank line
StanzaText(st) ==
    Flatten([i \in 1..Len(st) |->
        Flatten([j \in 1..Len(st[i]) |-> st[i][j] \o <<"\n">>]) \o <<"\n">>])

\* a stanza's first line for section k
HeaderLine(k) == <<"[">> \o k \o <<"]">>

\* the stanzas of text whose header is [k], in their order in the text
StanzasOf(text, k) ==
    SelectSeq(Stanzas(text), LAMBDA s : s # <<>> /\ s[1] = HeaderLine(k))

\* the strings of a list of str
Strings(xs) == [i \in 1..Len(xs) |-> xs[i].v]

StrictlyAscending(ss) == \A i \in 1..(Len(ss) - 1) : StrLess(ss[i], ss[i + 1])

----------------------------------------------------------------------------
(* Claims about the CfgParser machine *)

LastCall == calls[Len(calls)]

\* the state a fresh parser is in after the calls cs, made in order, the
\* first exception ending the sequence
RECURSIVE RunCalls(_)
RunCalls(cs) ==
    IF cs = <<>> THEN [conf_dict |-> CfgParser_init, raised |-> "none"]
    ELSE LET st == RunCalls(SubSeq(cs, 1, Len(cs) - 1))
             c == cs[Len(cs)]
         IN  IF st.raised # "none" THEN st
             ELSE IF c.op = "update_section"
             THEN IF update_section_raises(st.conf_dict, c.sec)
                  THEN [st EXCEPT !.raised = "AttributeError"]
                  ELSE [st EXCEPT !.conf_dict = update_section(@, c.sec, c.key, c.val)]
             ELSE IF update_route_section_raises(st.conf_dict, c.sec)
                  THEN [st EXCEPT !.raised = "TypeError"]
                  ELSE [st EXCEPT !.conf_dict =
                            update_route_section(@, c.sec, c.rid, c.key, c.val)]

\* C1: when get_final_conf() has returned a text, every permutation of the
\* update calls made before it, applied to a fresh CfgParser, completes and
\* makes get_final_conf() return the same text.
C1_OrderIndependent ==
    final.valid =>
        \A p \in Permutations(1..Len(calls)) :
            LET r == RunCalls([i \in 1..Len(calls) |-> calls[p[i]]])
            IN  /\ r.raised = "none"
                /\ get_final_conf(r.conf_dict).contents = final.text

\* two different lines were added to one section, the greater one first, and
\* the text was produced
C1_Witness ==
    /\ final.valid
    /\ \E i, j \in 1..Len(calls) :
           /\ i < j
           /\ calls[i].op = calls[j].op /\ calls[i].sec = calls[j].sec
           /\ calls[i].rid = calls[j].rid
           /\ StrLess(KeyValue(calls[j].key, calls[j].val).v,
                      KeyValue(calls[i].key, calls[i].val).v)
    /\ \E i \in 1..Len(calls) : calls[i].op = "update_route_section"

\* every list of line strings the accumulator holds
AllLists(cd) ==
    LET route == DictGet(cd, Lit.Route)
    IN  {Strings(cd.v[i][2].v) : i \in {j \in 1..Len(cd.v) : cd.v[j][2].t = "list"}}
        \cup {Strings(route.v[i][2].v) : i \in 1..Len(route.v)}

\* the list an update call writes to
TargetList(cd, c) ==
    IF c.op = "update_section" THEN Strings(DictGet(cd, c.sec).v)
    ELSE LET route == DictGet(cd, c.sec)
         IN  IF DictHas(route, c.rid) THEN Strings(DictGet(route, c.rid).v) ELSE <<>>

\* C2: every list-valued section and every per-route-id list is in strictly
\* ascending order (so it holds no line twice), and the line of every call
\* made is in its list exactly once, however often the call was made.
C2_SortedUnique ==
    /\ \A xs \in AllLists(conf_dict) : StrictlyAscending(xs)
    /\ raised = "none" =>
         \A n \in 1..Len(calls) :
             LET c == calls[n]
             IN  DictHas(conf_dict, c.sec) =>
                   Cardinality({i \in 1..Len(TargetList(conf_dict, c)) :
                       TargetList(conf_dict, c)[i] = KeyValue(c.key, c.val).v}) = 1

\* the same pair was added twice to a section that holds two lines
C2_Witness ==
    /\ raised = "none"
    /\ \E i, j \in 1..Len(calls) :
           /\ i < j /\ calls[i] = calls[j]
           /\ DictHas(conf_dict, calls[i].sec)
           /\ Len(TargetList(conf_dict, calls[i])) = 2

FixedSections == {conf_dict.v[i][1] : i \in 1..Len(conf_dict.v)}

IsUpdateSectionStep ==
    /\ Len(calls') = Len(calls) + 1
    /\ calls'[Len(calls')].op = "update_section"

\* C9 as claimed: no update_section call raises, for any section name, and a
\* call naming no fixed section changes nothing.
C9_NeverRaises ==
    [][IsUpdateSectionStep =>
          /\ raised' = "none"
          /\ calls'[Len(calls')].sec \notin FixedSections => conf_dict' = conf_dict
      ]_vars

\* C9 amended: an update_section call raises exactly when it names the
\* Route section, and a call naming no fixed section changes nothing.
C9_RaisesOnlyOnRoute ==
    [][IsUpdateSectionStep =>
          /\ raised' # "none" <=> calls'[Len(calls')].sec = Lit.Route
          /\ calls'[Len(calls')].sec \notin FixedSections =>
                 conf_dict' = conf_dict /\ raised' = raised
      ]_vars

\* update_section was called with an unknown name on a parser that holds lines
C9_Witness ==
    /\ Len(calls) > 1
    /\ LastCall.op = "update_section"
    /\ LastCall.sec = Lit.Resolve
    /\ conf_dict # CfgParser_init
    /\ raised = "none"

SortedSectionNames ==
    Strings(SortList([i \in 1..Len(conf_dict.v) |-> Str(conf_dict.v[i][1])]))

\* C10: the text get_final_conf() returned is a sequence of stanzas, each
\* followed by one blank line; their headers name fixed sections in ascending
\* order; an empty section has no stanza, an ordinary section one stanza with
\* all its lines, Address one stanza per line, Route one stanza per route
\* identifier, the identifiers in ascending order.
C10_Layout ==
    final.valid =>
      LET st == Stanzas(final.text)
          name(s) == SubSeq(s[1], 2, Len(s[1]) - 1)
      IN  /\ StanzaText(st) = final.text
          /\ \A i \in 1..Len(st) :
                 /\ st[i] # <<>>
                 /\ \E k \in FixedSections : st[i][1] = HeaderLine(k)
          /\ \A i, j \in 1..Len(st) : i < j => ~StrLess(name(st[j]), name(st[i]))
          /\ \A k \in FixedSections :
                 LET v == DictGet(conf_dict, k)
                     sk == StanzasOf(final.text, k)
                 IN  IF k = Lit.Address
                     THEN sk = [i \in 1..Len(v.v) |-> <<HeaderLine(k)>> \o <<v.v[i].v>>]
                     ELSE IF k = Lit.Route
                     THEN LET rs == SortList([i \in 1..Len(v.v) |-> Str(v.v[i][1])])
                          IN  sk = [i \in 1..Len(rs) |->
                                      <<HeaderLine(k)>> \o Strings(DictGet(v, rs[i].v).v)]
                     ELSE IF v.v = <<>> THEN sk = <<>>
                     ELSE sk = << <<HeaderLine(k)>> \o Strings(v.v) >>

\* the text of a parser that holds two addresses and a route
C10_Witness ==
    /\ final.valid
    /\ Len(DictGet(conf_dict, Lit.Address).v) = 2
    /\ Len(DictGet(conf_dict, Lit.Route).v) = 1

----------------------------------------------------------------------------
(* Renderer: the methods as functions of the CfgParser they fill.  A dict  *)
(* of the network state whose keys are fixed words is a record (a key is   *)
(* present when it is in the record's DOMAIN); a dict keyed by device      *)
(* names is a Dict of <<name, record>> pairs in insertion order.           *)

\* d.get(k)
Get(d, k) == IF k \in DOMAIN d THEN d[k] ELSE None

\* `k in d and d[k]`, d.get(k) as a condition
Has(d, k) == k \in DOMAIN d /\ Truthy(d[k])

\* chr(n)
Chr(n) == CHOOSE c \in DOMAIN Ord : Ord[c] = n

\* str.lower() / str.casefold() on ASCII
Lower(s) ==
    [i \in 1..Len(s) |->
        IF Ord[s[i]] >= 65 /\ Ord[s[i]] <= 90 THEN Chr(Ord[s[i]] + 32) ELSE s[i]]

RECURSIVE Join(_, _)
\* sep.join(xs) for a list xs of str
Join(sep, xs) ==
    IF xs = <<>> THEN <<>>
    ELSE IF Len(xs) = 1 THEN xs[1].v
    ELSE Join(sep, SubSeq(xs, 1, Len(xs) - 1)) \o sep \o xs[Len(xs)].v

\* generate_match_section: the lines of [Match]
generate_match_section(iface, cd) ==
    LET c1 == IF Has(iface, "name")
              THEN update_section(cd, Lit.Match, Lit.Name, iface.name) ELSE cd
        c2 == IF Has(iface, "driver")
              THEN update_section(c1, Lit.Match, Lit.Driver, iface.driver) ELSE c1
    IN  IF iface.type = Str(Lit.physical) /\ Has(iface, "mac_address")
        THEN update_section(c2, Lit.Match, Lit.MACAddress, iface.mac_address)
        ELSE c2

\* generate_link_section: the lines of [Link]
generate_link_section(iface, cd) ==
    LET c1 == IF Truthy(Get(iface, "mtu"))
              THEN update_section(cd, Lit.Link, Lit.MTUBytes, iface.mtu) ELSE cd
        c2 == IF iface.type # Str(Lit.physical) /\ Truthy(Get(iface, "mac_address"))
              THEN update_section(c1, Lit.Link, Lit.MACAddress, iface.mac_address)
              ELSE c1
    IN  IF Has(iface, "optional")
        THEN update_section(c2, Lit.Link, Lit.RequiredForOnline, Str(Lit.no))
        ELSE c2

\* parse_routes: the lines of one route, stored under the identifier rid
parse_routes(rid, conf, cd) ==
    LET prefix == IF "prefix" \in DOMAIN conf
                  THEN <<"/">> \o PyStr(conf.prefix) ELSE <<>>
        c1 == IF "gateway" \in DOMAIN conf
              THEN update_route_section(cd, Lit.Route, rid, Lit.Gateway, conf.gateway)
              ELSE cd
        c2 == IF "network" \in DOMAIN conf
              THEN update_route_section(c1, Lit.Route, rid, Lit.Destination,
                                        Str(conf.network.v \o prefix))
              ELSE c1
    IN  IF "metric" \in DOMAIN conf
        THEN update_route_section(c2, Lit.Route, rid, Lit.Metric, conf.metric)
        ELSE c2

\* a route identifier that leaves the counter out
RouteId_shared(family, rid) == family

\* f"r{rid}", f"a{rid}", f"c{rid}"
RouteId(family, rid) == family \o Digits(rid)

\* a DHCP mode that follows the last DHCP subnet only
dhcp_mode_last(dhcp, t) ==
    IF t \in {Str(Lit.dhcp4), Str(Lit.dhcp)} THEN Lit.ipv4
    ELSE IF t = Str(Lit.dhcp6) THEN Lit.ipv6
    ELSE dhcp

\* the accumulated DHCP mode after a subnet of type t (parse_subnets)
dhcp_mode(dhcp, t) ==
    IF t \in {Str(Lit.dhcp4), Str(Lit.dhcp)}
    THEN (IF dhcp = Lit.no THEN Lit.ipv4 ELSE IF dhcp = Lit.ipv6 THEN Lit.yes ELSE dhcp)
    ELSE IF t = Str(Lit.dhcp6)
    THEN (IF dhcp = Lit.no THEN Lit.ipv6 ELSE IF dhcp = Lit.ipv4 THEN Lit.yes ELSE dhcp)
    ELSE dhcp

RECURSIVE subnet_routes(_, _)
\* the subnet's routes loop: st = [cd, rid]; every route takes the next r<rid>
subnet_routes(routes, st) ==
    IF routes = <<>> THEN st
    ELSE LET s1 == subnet_routes(SubSeq(routes, 1, Len(routes) - 1), st)
         IN  [cd |-> parse_routes(RouteId(<<"r">>, s1.rid), routes[Len(routes)], s1.cd),
              rid |-> s1.rid + 1]

RECURSIVE Split(_, _)
\* s.split(sep) for a one-character sep
Split(s, sep) ==
    LET N == {i \in 1..Len(s) : s[i] = sep}
    IN  IF N = {} THEN <<s>>
        ELSE LET i == CHOOSE i \in N : \A j \in N : i <= j
             IN  <<SubSeq(s, 1, i - 1)>> \o Split(SubSeq(s, i + 1, Len(s)), sep)

RECURSIVE ParseNat(_)
\* int(s) for a string of decimal digits
ParseNat(s) ==
    IF s = <<>> THEN 0
    ELSE 10 * ParseNat(SubSeq(s, 1, Len(s) - 1)) + (Ord[s[Len(s)]] - 48)

\* the four octets of a dotted-quad address
Octets(s) == LET p == Split(s, ".") IN [i \in 1..4 |-> ParseNat(p[i])]

RECURSIVE Pow2(_)
Pow2(n) == IF n = 0 THEN 1 ELSE 2 * Pow2(n - 1)

\* CIDR containment: gateway is in the network of subnet ("a.b.c.d" or
\* "a.b.c.d/len", host bits ignored)
InNetwork(gateway, subnet) ==
    LET parts == Split(subnet, "/")
        len == IF Len(parts) > 1 THEN ParseNat(parts[2]) ELSE 32
        net == Octets(parts[1])
        gw == Octets(gateway)
        bits(i) == IF len >= 8 * i THEN 8
                   ELSE IF len <= 8 * (i - 1) THEN 0 ELSE len - 8 * (i - 1)
    IN  \A i \in 1..4 :
            gw[i] \div Pow2(8 - bits(i)) = net[i] \div Pow2(8 - bits(i))

\* cloudinit.net.should_add_gateway_onlink_flag
should_add_gateway_onlink_flag(gateway, subnet) == ~InNetwork(gateway, subnet)

\* a subnet gateway that is always given the on-link flag
subnet_gateway_always(e, addr, st) ==
    LET id == RouteId(<<"a">>, st.rid)
    IN  [cd |-> update_route_section(
                    update_route_section(st.cd, Lit.Route, id, Lit.Gateway, e.gateway),
                    Lit.Route, id, Lit.GatewayOnLink, Str(Lit.yes)),
         rid |-> st.rid + 1]

\* the subnet's gateway: its own route a<rid>, with the on-link flag
subnet_gateway(e, addr, st) ==
    LET id == RouteId(<<"a">>, st.rid)
        c1 == update_route_section(st.cd, Lit.Route, id, Lit.Gateway, e.gateway)
        c2 == IF should_add_gateway_onlink_flag(e.gateway.v, addr)
              THEN update_route_section(c1, Lit.Route, id, Lit.GatewayOnLink, Str(Lit.yes))
              ELSE c1
    IN  [cd |-> c2, rid |-> st.rid + 1]

\* `if cond: cfg.update_section(sec, key, val)`
update_section_if(cond, cd, sec, key, val) ==
    IF cond THEN update_section(cd, sec, key, val) ELSE cd

\* the DNS= and Domains= lines of a subnet that has an address
subnet_dns(e, st) ==
    [cd |-> update_section_if("dns_search" \in DOMAIN e,
                update_section_if("dns_nameservers" \in DOMAIN e, st.cd,
                    Lit.Network, Lit.DNS, Str(Join(<<" ">>, e.dns_nameservers))),
                Lit.Network, Lit.Domains, Str(Join(<<" ">>, e.dns_search))),
     rid |-> st.rid]

\* the loop over e.items() for a subnet whose address is addr
subnet_items(e, addr, st) ==
    subnet_dns(e, IF "gateway" \in DOMAIN e
                  THEN subnet_gateway(e, addr,
                           [cd |-> update_section(st.cd, Lit.Address, Lit.Address, Str(addr)),
                            rid |-> st.rid])
                  ELSE [cd |-> update_section(st.cd, Lit.Address, Lit.Address, Str(addr)),
                        rid |-> st.rid])

\* `if "address" in e`; st = [cd, rid]
subnet_address(e, st) ==
    IF "address" \in DOMAIN e
    THEN subnet_items(e, e.address.v \o (IF "prefix" \in DOMAIN e
                                         THEN <<"/">> \o PyStr(e.prefix) ELSE <<>>), st)
    ELSE st

\* `if "routes" in e and e["routes"]`; st = [cd, rid]
subnet_routes_if(e, st) ==
    IF "routes" \in DOMAIN e /\ e.routes # <<>> THEN subnet_routes(e.routes, st) ELSE st

\* one pass of the loop of parse_subnets over subnet e; st = [cd, dhcp, rid]
parse_subnet(e, st) ==
    [dhcp |-> dhcp_mode(st.dhcp, e.type)]
    @@ subnet_address(e, subnet_routes_if(e, [cd |-> st.cd, rid |-> st.rid]))

\* parse_subnets after its loop: the DHCP= and IPv6AcceptRA= lines
parse_subnets_end(iface, cd, dhcp) ==
    LET c1 == update_section(cd, Lit.Network, Lit.DHCP, Str(dhcp))
        ra == Get(iface, "accept-ra")
    IN  IF ra.t = "bool"
        THEN update_section(c1, Lit.Network, Lit.IPv6AcceptRA,
                            Str(IF ra.v THEN Lit.yes ELSE Lit.no))
        ELSE c1

\* util.translate_bool raises ValueError on a value that is not boolean-like
translate_bool_raises(s) ==
    s \notin {Lit.true, <<"1">>, Lit.on, Lit.yes, Lit.false, <<"0">>, Lit.off, Lit.no}

\* util.translate_bool on a boolean-like string
translate_bool(s) == s \in {Lit.true, <<"1">>, Lit.on, Lit.yes}

\* a dhcp_domain that writes the casefolded toggle value as it stands
dhcp_domain_value_raw(x) == Lower(PyStr(x))

\* the UseDomains value dhcp_domain gives the toggle value x
dhcp_domain_value(x) ==
    LET ret == Lower(PyStr(x))
    IN  IF translate_bool_raises(ret)
        THEN (IF ret # Lit.route THEN Lit.no ELSE ret)
        ELSE (IF translate_bool(ret) THEN Lit.yes ELSE Lit.no)

\* dhcp_domain: the legacy dhcp4domain / dhcp6domain keys of a device
dhcp_domain(d, cd) ==
    LET c1 == IF "dhcp4domain" \in DOMAIN d
              THEN update_section(cd, Lit.DHCPv4, Lit.UseDomains,
                                  Str(dhcp_domain_value(d.dhcp4domain)))
              ELSE cd
    IN  IF "dhcp6domain" \in DOMAIN d
        THEN update_section(c1, Lit.DHCPv6, Lit.UseDomains,
                            Str(dhcp_domain_value(d.dhcp6domain)))
        ELSE c1

\* a DNS step that falls back to the global settings under every version
parse_dns_fallback(iface, cd, ns) ==
    LET own == "dns" \in DOMAIN iface /\ DOMAIN iface.dns # {}
        dns == IF own THEN iface.dns
               ELSE [search |-> List(ns.dns_searchdomains),
                     nameservers |-> List(ns.dns_nameservers)]
    IN  update_section_if(Has(dns, "nameservers"),
            update_section_if(Has(dns, "search"), cd, Lit.Network, Lit.Domains,
                              Str(Join(<<" ">>, dns.search.v))),
            Lit.Network, Lit.DNS, Str(Join(<<" ">>, dns.nameservers.v)))

\* parse_dns: the interface's DNS block, or for a version-1 state the global one
parse_dns(iface, cd, ns) ==
    LET own == "dns" \in DOMAIN iface /\ DOMAIN iface.dns # {}
        dns == IF own THEN iface.dns
               ELSE [search |-> List(ns.dns_searchdomains),
                     nameservers |-> List(ns.dns_nameservers)]
        c1 == IF Has(dns, "search")
              THEN update_section(cd, Lit.Network, Lit.Domains,
                                  Str(Join(<<" ">>, dns.search.v)))
              ELSE cd
    IN  IF ~own /\ ns.version = 2 THEN cd
        ELSE IF Has(dns, "nameservers")
        THEN update_section(c1, Lit.Network, Lit.DNS,
                            Str(Join(<<" ">>, dns.nameservers.v)))
        ELSE c1

\* dhcp_config_maps of parse_dhcp_overrides: <<directive, override key>>
dhcp_config_maps(version) ==
    << <<Lit.UseDNS, "use-dns">>, <<Lit.UseDomains, "use-domains">>,
       <<Lit.UseHostname, "use-hostname">>, <<Lit.UseNTP, "use-ntp">> >>
    \o (IF version = "4"
        THEN << <<Lit.SendHostname, "send-hostname">>, <<Lit.Hostname, "hostname">>,
                <<Lit.RouteMetric, "route-metric">>, <<Lit.UseMTU, "use-mtu">>,
                <<Lit.UseRoutes, "use-routes">> >>
        ELSE <<>>)

\* f"dhcp{version}-overrides", f"dhcp{version}domain", f"DHCPv{version}", f"ipv{version}"
OverridesKey(version) == IF version = "4" THEN "dhcp4-overrides" ELSE "dhcp6-overrides"
DomainKey(version)    == IF version = "4" THEN "dhcp4domain" ELSE "dhcp6domain"
DhcpSection(version)  == IF version = "4" THEN Lit.DHCPv4 ELSE Lit.DHCPv6
IpvMode(version)      == IF version = "4" THEN Lit.ipv4 ELSE Lit.ipv6

RECURSIVE apply_overrides(_, _, _, _)
\* the loop over dhcp_config_maps
apply_overrides(maps, overrides, sec, cd) ==
    IF maps = <<>> THEN cd
    ELSE LET c1 == apply_overrides(SubSeq(maps, 1, Len(maps) - 1), overrides, sec, cd)
             m == maps[Len(maps)]
         IN  IF m[2] \in DOMAIN overrides
             THEN update_section(c1, sec, m[1], overrides[m[2]])
             ELSE c1

\* overrides applied whatever the DHCP mode
parse_dhcp_overrides_ungated(cd, device, dhcp, version) ==
    IF OverridesKey(version) \in DOMAIN device
    THEN apply_overrides(dhcp_config_maps(version), device[OverridesKey(version)],
                         DhcpSection(version), cd)
    ELSE cd

\* parse_dhcp_overrides
parse_dhcp_overrides(cd, device, dhcp, version) ==
    IF OverridesKey(version) \in DOMAIN device /\ dhcp \in {Lit.yes, IpvMode(version)}
    THEN apply_overrides(dhcp_config_maps(version), device[OverridesKey(version)],
                         DhcpSection(version), cd)
    ELSE cd

\* d.get(k) on a Dict
DictGetOr(d, k) == IF DictHas(d, k) THEN DictGet(d, k) ELSE None

\* the .netdev text of one well-formed VLAN
vlan_netdev_conf(vlan_name, vlan_cfg) ==
    LET c1 == update_section(CfgParser_init, Lit.NetDev, Lit.Name, Str(vlan_name))
        c2 == update_section(c1, Lit.NetDev, Lit.Kind, Str(Lit.vlan))
        c3 == IF Truthy(Get(vlan_cfg, "mtu"))
              THEN update_section(c2, Lit.NetDev, Lit.MTUBytes, vlan_cfg.mtu) ELSE c2
        c4 == IF Truthy(Get(vlan_cfg, "macaddress"))
              THEN update_section(c3, Lit.NetDev, Lit.MACAddress,
                                  Str(Lower(vlan_cfg.macaddress.v)))
              ELSE c3
        c5 == update_section(c4, Lit.VLAN, Lit.Id, vlan_cfg.id)
    IN  get_final_conf(c5).contents

\* a pass that registers the parent before it looks for `id` and `link`
render_vlan_register_first(vlan_name, vlan_cfg, st) ==
    LET l1 == IF "link" \in DOMAIN vlan_cfg
              THEN DictSet(st.vlan_link, vlan_cfg.link.v, Str(vlan_name))
              ELSE st.vlan_link
        l2 == IF Truthy(Get(vlan_cfg, "macaddress"))
              THEN DictSet(l1, Lit.macaddress,
                       DictSet(DictGet(l1, Lit.macaddress), vlan_name,
                               Str(Lower(vlan_cfg.macaddress.v))))
              ELSE l1
    IN  IF Get(vlan_cfg, "id") = None \/ Get(vlan_cfg, "link") = None
        THEN [vlan_netdev |-> st.vlan_netdev, vlan_link |-> l1]
        ELSE [vlan_netdev |-> DictSet(st.vlan_netdev, vlan_name,
                                      Str(vlan_netdev_conf(vlan_name, vlan_cfg))),
              vlan_link |-> l2]

\* one pass of the loop of render_vlans; st = [vlan_netdev, vlan_link]
render_vlan(vlan_name, vlan_cfg, st) ==
    IF Get(vlan_cfg, "id") = None \/ Get(vlan_cfg, "link") = None THEN st
    ELSE LET l1 == DictSet(st.vlan_link, vlan_cfg.link.v, Str(vlan_name))
             l2 == IF Truthy(Get(vlan_cfg, "macaddress"))
                   THEN DictSet(l1, Lit.macaddress,
                            DictSet(DictGet(l1, Lit.macaddress), vlan_name,
                                    Str(Lower(vlan_cfg.macaddress.v))))
                   ELSE l1
         IN  [vlan_netdev |-> DictSet(st.vlan_netdev, vlan_name,
                                      Str(vlan_netdev_conf(vlan_name, vlan_cfg))),
              vlan_link |-> l2]

RECURSIVE render_vlans_loop(_)
render_vlans_loop(vlans) ==
    IF vlans = <<>>
    THEN [vlan_netdev |-> Dict(<<>>),
          vlan_link |-> Dict(<< <<Lit.macaddress, Dict(<<>>)>> >>)]
    ELSE render_vlan(vlans[Len(vlans)][1], vlans[Len(vlans)][2],
                     render_vlans_loop(SubSeq(vlans, 1, Len(vlans) - 1)))

\* render_vlans
render_vlans(ns) ==
    render_vlans_loop(IF "vlans" \in DOMAIN ns.config THEN ns.config.vlans.v ELSE <<>>)

\* the bond tunables: <<parameter, directive, transform>>
bond_params ==
    << <<"mode", Lit.Mode, "plain">>,
       <<"mii-monitor-interval", Lit.MIIMonitorSec, "ms">>,
       <<"updelay", Lit.UpDelaySec, "ms">>,
       <<"downdelay", Lit.DownDelaySec, "ms">>,
       <<"arp-interval", Lit.ARPIntervalSec, "ms">>,
       <<"arp-ip-target", Lit.ARPIPTargets, "join">>,
       <<"arp-validate", Lit.ARPValidate, "plain">>,
       <<"arp-all-targets", Lit.ARPAllTargets, "plain">>,
       <<"primary-reselect", Lit.PrimaryReselectPolicy, "plain">>,
       <<"lacp-rate", Lit.LACPTransmitRate, "plain">>,
       <<"transmit-hash-policy", Lit.TransmitHashPolicy, "plain">>,
       <<"ad-select", Lit.AdSelect, "plain">>,
       <<"min-links", Lit.MinLinks, "plain">>,
       <<"all-slaves-active", Lit.AllSlavesActive, "lower">> >>

\* the value written for a bond tunable
bond_param_value(x, transform) ==
    CASE transform = "ms"    -> Str(PyStr(x) \o Lit.ms)
      [] transform = "join"  -> Str(Join(<<" ">>, IF x.t = "str" THEN <<x>> ELSE x.v))
      [] transform = "lower" -> Str(Lower(PyStr(x)))
      [] OTHER               -> Str(PyStr(x))

RECURSIVE bond_parameters(_, _, _)
\* the [Bond] lines of the tunables present in params
bond_parameters(table, params, cd) ==
    IF table = <<>> THEN cd
    ELSE LET c1 == bond_parameters(SubSeq(table, 1, Len(table) - 1), params, cd)
             p == table[Len(table)]
         IN  IF p[1] \in DOMAIN params
             THEN update_section(c1, Lit.Bond, p[2], bond_param_value(params[p[1]], p[3]))
             ELSE c1

\* the .netdev text of one well-formed bond
bond_netdev_conf(bond_name, bond_cfg) ==
    LET c1 == update_section(CfgParser_init, Lit.NetDev, Lit.Name, Str(bond_name))
        c2 == update_section(c1, Lit.NetDev, Lit.Kind, Str(Lit.bond))
        c3 == IF Truthy(Get(bond_cfg, "mtu"))
              THEN update_section(c2, Lit.NetDev, Lit.MTUBytes, bond_cfg.mtu) ELSE c2
        c4 == IF Truthy(Get(bond_cfg, "macaddress"))
              THEN update_section(c3, Lit.NetDev, Lit.MACAddress,
                                  Str(Lower(bond_cfg.macaddress.v)))
              ELSE c3
        params == IF "parameters" \in DOMAIN bond_cfg THEN bond_cfg.parameters
                  ELSE [x \in {} |-> None]
    IN  get_final_conf(bond_parameters(bond_params, params, c4)).contents

RECURSIVE bond_members(_, _, _)
\* bond_link_info.update({iface: bond_name for iface in interfaces})
bond_members(interfaces, bond_name, link) ==
    IF interfaces = <<>> THEN link
    ELSE DictSet(bond_members(SubSeq(interfaces, 1, Len(interfaces) - 1), bond_name, link),
                 interfaces[Len(interfaces)].v, Str(bond_name))

\* one pass of the loop of render_bonds; st = [bond_netdev, bond_link]
render_bond(bond_name, bond_cfg, st) ==
    IF ~Truthy(Get(bond_cfg, "interfaces")) THEN st
    ELSE LET l1 == bond_members(bond_cfg.interfaces.v, bond_name, st.bond_link)
             l2 == IF Truthy(Get(bond_cfg, "macaddress"))
                   THEN DictSet(l1, Lit.macaddress,
                            DictSet(DictGet(l1, Lit.macaddress), bond_name,
                                    Str(Lower(bond_cfg.macaddress.v))))
                   ELSE l1
         IN  [bond_netdev |-> DictSet(st.bond_netdev, bond_name,
                                      Str(bond_netdev_conf(bond_name, bond_cfg))),
              bond_link |-> l2]

RECURSIVE render_bonds_loop(_)
render_bonds_loop(bonds) ==
    IF bonds = <<>>
    THEN [bond_netdev |-> Dict(<<>>),
          bond_link |-> Dict(<< <<Lit.macaddress, Dict(<<>>)>> >>)]
    ELSE render_bond(bonds[Len(bonds)][1], bonds[Len(bonds)][2],
                     render_bonds_loop(SubSeq(bonds, 1, Len(bonds) - 1)))

\* render_bonds
render_bonds(ns) ==
    render_bonds_loop(IF "bonds" \in DOMAIN ns.config THEN ns.config.bonds.v ELSE <<>>)

\* the VLAN= / Bond= line of an interface a VLAN or bond names (link is
\* vlan_link or bond_link, key is "VLAN" or "Bond")
cross_reference(iface, link, key, cd) ==
    LET link_name == DictGetOr(link, iface.name.v)
    IN  IF Truthy(link_name) THEN update_section(cd, Lit.Network, key, link_name) ELSE cd

\* an interface keeps the MAC of the model
mac_backfill_none(iface, link) == iface

\* the MAC a VLAN or bond registered under the interface's name, for an
\* interface that has none
mac_backfill(iface, link) ==
    IF ~Truthy(iface.mac_address) /\ Truthy(DictGetOr(link, Lit.macaddress))
    THEN LET mac == DictGetOr(DictGet(link, Lit.macaddress), iface.name.v)
         IN  IF Truthy(mac) THEN [iface EXCEPT !.mac_address = mac] ELSE iface
    ELSE iface

\* _render_content, the loop body up to parse_subnets: a KeyError when the
\* interface has no mac_address key, else the interface (its MAC backfilled)
\* and the CfgParser with the cross references and [Match] and [Link]
iface_begin(iface, vlan_ln, bond_ln) ==
    IF "mac_address" \notin DOMAIN iface
    THEN [raised |-> "KeyError", iface |-> iface, cd |-> CfgParser_init]
    ELSE LET c1 == cross_reference(iface, vlan_ln, Lit.VLAN, CfgParser_init)
             i1 == mac_backfill(iface, vlan_ln)
             c2 == cross_reference(i1, bond_ln, Lit.Bond, c1)
             i2 == mac_backfill(i1, bond_ln)
         IN  [raised |-> "none", iface |-> i2,
              cd |-> generate_link_section(i2, generate_match_section(i2, c2))]

RECURSIVE global_routes(_, _)
\* the loop over ns.iter_routes(): the n-th route is stored under c<n>
global_routes(routes, cd) ==
    IF routes = <<>> THEN cd
    ELSE parse_routes(RouteId(<<"c">>, Len(routes) - 1), routes[Len(routes)],
                      global_routes(SubSeq(routes, 1, Len(routes) - 1), cd))

\* the key of ns.config["ethernets"] the interface is looked up under: the
\* first device whose set-name is the interface's name, else that name
device_name(iface, ethernets) ==
    LET M == {i \in 1..Len(ethernets.v) :
                 /\ "set-name" \in DOMAIN ethernets.v[i][2]
                 /\ ethernets.v[i][2]["set-name"] = iface.name}
    IN  IF M = {} THEN iface.name.v
        ELSE ethernets.v[CHOOSE i \in M : \A j \in M : i <= j][1]

\* both dhcp<version>domain and dhcp<version>-overrides.use-domains are set
domain_conflict(device, version) ==
    /\ DomainKey(version) \in DOMAIN device
    /\ OverridesKey(version) \in DOMAIN device
    /\ "use-domains" \in DOMAIN device[OverridesKey(version)]

\* a device block that lets the conflict pass when its DHCP family is off
render_device_gated(device, cd, dhcp) ==
    LET c1 == dhcp_domain(device, cd)
        c2 == parse_dhcp_overrides(c1, device, dhcp, "4")
    IN  IF domain_conflict(device, "4") /\ dhcp \in {Lit.yes, Lit.ipv4}
        THEN [raised |-> "RuntimeError", cd |-> c1]
        ELSE IF domain_conflict(device, "6") /\ dhcp \in {Lit.yes, Lit.ipv6}
        THEN [raised |-> "RuntimeError", cd |-> c2]
        ELSE [raised |-> "none", cd |-> parse_dhcp_overrides(c2, device, dhcp, "6")]

\* _render_content, the version-2 block for a device found in ethernets
render_device(device, cd, dhcp) ==
    LET c1 == dhcp_domain(device, cd)
        c2 == parse_dhcp_overrides(c1, device, dhcp, "4")
    IN  IF domain_conflict(device, "4") THEN [raised |-> "RuntimeError", cd |-> c1]
        ELSE IF domain_conflict(device, "6") THEN [raised |-> "RuntimeError", cd |-> c2]
        ELSE [raised |-> "none", cd |-> parse_dhcp_overrides(c2, device, dhcp, "6")]

\* _render_content, the loop body after parse_subnets: DNS, the global
\* routes, and for a version-2 state the device's DHCP settings
iface_end(iface, cd, dhcp, ns) ==
    LET c1 == global_routes(ns.routes, parse_dns(iface, cd, ns))
    IN  IF ns.version # 2 THEN [raised |-> "none", cd |-> c1]
        ELSE IF "ethernets" \notin DOMAIN ns.config THEN [raised |-> "KeyError", cd |-> c1]
        ELSE LET name == device_name(iface, ns.config.ethernets)
             IN  IF DictHas(ns.config.ethernets, name)
                 THEN render_device(DictGet(ns.config.ethernets, name), c1, dhcp)
                 ELSE [raised |-> "none", cd |-> c1]

\* a file name that always takes the extension of a primary unit
net_fn_network(link, ext) == Lit.network_conf_dir \o Lit.prefix_fn \o link \o Lit.ext_network

\* f"{nwk_dir}10-cloud-init-{link}{ext}"
net_fn(link, ext) == Lit.network_conf_dir \o Lit.prefix_fn \o link \o ext

\* a file written with the text as get_final_conf returned it
create_network_file_asis(link, conf, ext) == [fn |-> net_fn(link, ext), conf |-> conf]

\* create_network_file: the file written for a unit
create_network_file(link, conf, ext) ==
    [fn |-> net_fn(link, ext),
     conf |-> IF Len(conf) >= 2 /\ conf[Len(conf)] = "\n" /\ conf[Len(conf) - 1] = "\n"
              THEN SubSeq(conf, 1, Len(conf) - 1) ELSE conf]

\* d without the key k (dict.pop)
DictPop(d, k) == Dict(SelectSeq(d.v, LAMBDA kv : kv[1] # k))

\* the units to write, those of the VLANs and bonds first
units_to_write_netdev_first(network) ==
    LET vlan_netdev == IF DictHas(network, Lit.vlan_netdev)
                       THEN DictGet(network, Lit.vlan_netdev) ELSE Dict(<<>>)
        bond_netdev == IF DictHas(network, Lit.bond_netdev)
                       THEN DictGet(network, Lit.bond_netdev) ELSE Dict(<<>>)
        rest == DictPop(DictPop(network, Lit.vlan_netdev), Lit.bond_netdev)
        units(d, ext) == [i \in 1..Len(d.v) |->
                             [link |-> d.v[i][1], conf |-> d.v[i][2].v, ext |-> ext]]
    IN  units(vlan_netdev, Lit.ext_netdev) \o units(bond_netdev, Lit.ext_netdev)
        \o units(rest, Lit.ext_network)

\* render_network_state after _render_content returned network: the units
\* to write, in the order of the three loops
units_to_write(network) ==
    LET vlan_netdev == IF DictHas(network, Lit.vlan_netdev)
                       THEN DictGet(network, Lit.vlan_netdev) ELSE Dict(<<>>)
        bond_netdev == IF DictHas(network, Lit.bond_netdev)
                       THEN DictGet(network, Lit.bond_netdev) ELSE Dict(<<>>)
        rest == DictPop(DictPop(network, Lit.vlan_netdev), Lit.bond_netdev)
        units(d, ext) == [i \in 1..Len(d.v) |->
                             [link |-> d.v[i][1], conf |-> d.v[i][2].v, ext |-> ext]]
    IN  units(rest, Lit.ext_network) \o units(vlan_netdev, Lit.ext_netdev)
        \o units(bond_netdev, Lit.ext_netdev)

----------------------------------------------------------------------------
(* The network states rendered                                             *)

MaxSubnets == 2
MaxTypes == 3
MaxVlans == 2

\* the sequences over S of length at most n
SeqsUpTo(S, n) == UNION {[1..k -> S] : k \in 0..n}

\* the sequences of distinct elements of S of length at most n
DistinctSeqs(S, n) ==
    {s \in SeqsUpTo(S, n) : \A i, j \in 1..Len(s) : i # j => s[i] # s[j]}

\* a dict with no key, and the choices of one optional key
NoKeys == [x \in {} |-> None]
Opt(key, values) == {NoKeys} \cup {key :> v : v \in values}

\* routes as network_state gives them: prefix derived from the netmask
Route1 == [network |-> Str(Lit.net1), prefix |-> Num(16), gateway |-> Str(Lit.gw_in)]
Route2 == [network |-> Str(Lit.net2), prefix |-> Num(16), metric |-> Num(100)]
GlobalRoute1 == [network |-> Str(Lit.net2), prefix |-> Num(16), gateway |-> Str(Lit.gw_near)]
GlobalRoute2 == [gateway |-> Str(Lit.gw_out), metric |-> Num(5)]

\* the subnets of an interface
StaticBase == [type |-> Str(Lit.static), address |-> Str(Lit.ip_a)]
SubnetSet ==
    { [type |-> Str(Lit.dhcp4)], [type |-> Str(Lit.dhcp6)],
      StaticBase @@ [prefix |-> Num(24), gateway |-> Str(Lit.gw_in)],
      StaticBase @@ [prefix |-> Num(30), gateway |-> Str(Lit.gw_in)],
      StaticBase @@ [prefix |-> Num(30), gateway |-> Str(Lit.gw_near)],
      StaticBase @@ [prefix |-> Num(24), gateway |-> Str(Lit.gw_out),
                     routes |-> <<Route1, Route2>>],
      StaticBase @@ [gateway |-> Str(Lit.gw_in), routes |-> <<Route1>>],
      [type |-> Str(Lit.static), routes |-> <<Route1>>,
       dns_nameservers |-> <<Str(Lit.ns1)>>],
      StaticBase @@ [prefix |-> Num(24),
                     dns_nameservers |-> <<Str(Lit.ns2), Str(Lit.ns1)>>,
                     dns_search |-> <<Str(Lit.example)>>] }

Eth(name) == [name |-> Str(name), type |-> Str(Lit.physical), mac_address |-> None]

\* version 1: one interface, its subnets and the global routes
StateV1(s, ra, g, d) ==
    [version |-> 1, config |-> NoKeys,
     interfaces |-> << Eth(Lit.eth0) @@ [subnets |-> s] @@ ra >>,
     routes |-> g, dns_searchdomains |-> <<>>, dns_nameservers |-> d]

StatesV1 ==
    UNION { { StateV1(s, ra, g, d) :
              ra \in IF s = <<>>
                     THEN Opt("accept-ra", {Bool(TRUE), Bool(FALSE), Str(Lit.yes)})
                     ELSE {NoKeys},
              g \in IF Len(s) = MaxSubnets THEN {<<>>, <<GlobalRoute1, GlobalRoute2>>}
                                           ELSE {<<>>, <<GlobalRoute1>>},
              d \in IF s = <<>> THEN {<<>>, <<Str(Lit.ns1)>>} ELSE {<<>>} } :
            s \in SeqsUpTo(SubnetSet, MaxSubnets) }

\* version 1: one interface, the types of its subnets
TypeSet == {Lit.dhcp4, Lit.dhcp, Lit.dhcp6, Lit.static}

StatesV1Types ==
    { StateV1([i \in 1..Len(ts) |-> [type |-> Str(ts[i])]], NoKeys, <<>>, <<>>) :
      ts \in SeqsUpTo(TypeSet, MaxTypes) }

\* version 2: the DHCP settings of the ethernets entry of one interface
DeviceSet ==
    { a @@ b @@ c @@ d :
      a \in Opt("dhcp4domain", {Bool(TRUE), Str(Lit.route), Str(Lit.maybe)}),
      b \in Opt("dhcp4-overrides",
                { "use-domains" :> Bool(TRUE),
                  ("use-dns" :> Bool(FALSE)) @@ ("route-metric" :> Num(100)) }),
      c \in Opt("dhcp6domain", {Str(Lit.No)}),
      d \in Opt("dhcp6-overrides",
                { "use-domains" :> Str(Lit.route),
                  ("use-ntp" :> Bool(TRUE)) @@ ("use-mtu" :> Bool(TRUE)) }) }

DhcpSubnets ==
    { <<>>, << [type |-> Str(Lit.dhcp4)] >>, << [type |-> Str(Lit.dhcp6)] >>,
      << [type |-> Str(Lit.dhcp6)], [type |-> Str(Lit.dhcp)] >> }

\* how the interface eth0 finds, or misses, its entry of ethernets
EthernetsSet(dev) ==
    { Dict(<< <<Lit.eth0, dev>> >>),
      Dict(<< <<Lit.eth1, NoKeys>>, <<Lit.id0, dev @@ ("set-name" :> Str(Lit.eth0))>> >>),
      Dict(<< <<Lit.eth1, dev>> >>) }

StatesV2Dhcp ==
    { [version |-> 2, config |-> [ethernets |-> e],
       interfaces |-> << Eth(Lit.eth0) @@ [subnets |-> s] >>,
       routes |-> <<>>, dns_searchdomains |-> <<>>, dns_nameservers |-> <<>>] :
      s \in DhcpSubnets,
      e \in UNION {EthernetsSet(dev) : dev \in DeviceSet} }

\* version 2: VLAN and bond declarations, well-formed and malformed
VlanSet ==
    { <<Lit.v1, [id |-> Num(100), link |-> Str(Lit.eth0)]>>,
      <<Lit.v2, [id |-> Num(200), link |-> Str(Lit.eth0), mtu |-> Num(1400)]>>,
      <<Lit.v3, [id |-> Num(300), link |-> Str(Lit.eth1),
                 macaddress |-> Str(Lit.mac1)]>>,
      <<Lit.v4, [link |-> Str(Lit.eth0)]>>,
      <<Lit.v3, [link |-> Str(Lit.eth1), macaddress |-> Str(Lit.mac1)]>>,
      <<Lit.v5, [id |-> Num(0)]>>,
      <<Lit.v1, [id |-> Num(0), link |-> Str(Lit.eth1)]>> }

BondsSet ==
    { NoKeys,
      [bonds |-> Dict(<< <<Lit.b0, [interfaces |-> List(<<Str(Lit.eth1)>>),
                                    parameters |-> [mode |-> Str(Lit.yes)]]>> >>)],
      [bonds |-> Dict(<< <<Lit.b1, [interfaces |-> List(<<>>)]>>,
                         <<Lit.b0, [interfaces |-> List(<<Str(Lit.eth0), Str(Lit.eth1)>>),
                                    macaddress |-> Str(Lit.mac1)]>> >>)],
      [bonds |-> Dict(<< <<Lit.b1, [mtu |-> Num(1400), macaddress |-> Str(Lit.mac1)]>> >>)],
      [bonds |-> Dict(<< <<Lit.b1, [interfaces |-> List(<<Str(Lit.eth0)>>),
                                    macaddress |-> Str(Lit.mac1)]>> >>)] }

\* the keys of a sequence of <<key, value>> pairs are distinct, as in a dict
DistinctKeys(kv) == \A i, j \in 1..Len(kv) : i # j => kv[i][1] # kv[j][1]

StatesV2Virtual ==
    { [version |-> 2,
       config |-> [ethernets |-> Dict(<< <<Lit.eth0, NoKeys>>, <<Lit.eth1, NoKeys>> >>)]
                  @@ (IF v = <<>> THEN NoKeys ELSE [vlans |-> Dict(v)]) @@ b,
       interfaces |-> << Eth(Lit.eth0), Eth(Lit.eth1),
                         [name |-> Str(Lit.v3), type |-> Str(Lit.vlan),
                          mac_address |-> None],
                         [name |-> Str(Lit.b1), type |-> Str(Lit.bond),
                          mac_address |-> None] >>,
       routes |-> <<>>, dns_searchdomains |-> <<>>, dns_nameservers |-> <<>>] :
      v \in {s \in DistinctSeqs(VlanSet, MaxVlans) : DistinctKeys(s)},
      b \in BondsSet }

\* both versions: the DNS block of an interface and the global DNS settings
DnsBlocks ==
    { NoKeys,
      [dns |-> [nameservers |-> List(<<Str(Lit.ns2)>>),
                search |-> List(<<Str(Lit.example)>>)]],
      [dns |-> [nameservers |-> List(<<Str(Lit.ns2), Str(Lit.ns1)>>)]],
      [dns |-> [nameservers |-> List(<<>>), search |-> List(<<>>)]],
      [dns |-> NoKeys] }

StatesDns ==
    { [version |-> v,
       config |-> IF v = 2 THEN [ethernets |-> Dict(<< <<Lit.eth0, NoKeys>> >>)]
                  ELSE NoKeys,
       interfaces |-> << Eth(Lit.eth0) @@ own >>,
       routes |-> <<>>, dns_searchdomains |-> s, dns_nameservers |-> n] :
      v \in {1, 2}, own \in DnsBlocks,
      s \in {<<>>, <<Str(Lit.corp)>>},
      n \in {<<>>, <<Str(Lit.ns1)>>, <<Str(Lit.ns1), Str(Lit.ns2)>>} }

\* both versions: one interface with its optional fields present or absent,
\* with and without the ethernets block
OptionalFields ==
    { a @@ b @@ c @@ d @@ e @@ f @@ g :
      a \in Opt("mac_address", {None, Str(Lit.mac1)}),
      b \in Opt("mtu", {Num(1500)}),
      c \in Opt("driver", {Str(Lit.virtio)}),
      d \in Opt("optional", {Bool(TRUE)}),
      e \in Opt("accept-ra", {Bool(TRUE)}),
      f \in Opt("subnets", {<< [type |-> Str(Lit.static)],
                               [type |-> Str(Lit.static), gateway |-> Str(Lit.gw_in)] >>}),
      g \in Opt("dns", {[nameservers |-> List(<<Str(Lit.ns1)>>)]}) }

StatesOptional ==
    { [version |-> vc[1], config |-> vc[2],
       interfaces |-> << [name |-> Str(Lit.eth0), type |-> Str(Lit.physical)] @@ o >>,
       routes |-> <<>>, dns_searchdomains |-> <<>>, dns_nameservers |-> <<>>] :
      vc \in { <<1, NoKeys>>, <<2, NoKeys>>,
               <<2, [ethernets |-> Dict(<< <<Lit.eth0, NoKeys>> >>)]>> },
      o \in OptionalFields }

\* version 2: two interfaces, the device of the second with or without the
\* conflict of the domain keys, with and without a VLAN and a bond
StatesLateConflict ==
    { [version |-> 2,
       config |-> [ethernets |-> Dict(<< <<Lit.eth0, NoKeys>>, <<Lit.eth1, dev>> >>)] @@ v,
       interfaces |-> << Eth(Lit.eth0), Eth(Lit.eth1) >>,
       routes |-> <<>>, dns_searchdomains |-> <<>>, dns_nameservers |-> <<>>] :
      dev \in { NoKeys,
                [dhcp4domain |-> Bool(TRUE)]
                    @@ ("dhcp4-overrides" :> ("use-domains" :> Bool(TRUE))),
                [dhcp6domain |-> Str(Lit.No)]
                    @@ ("dhcp6-overrides" :> ("use-domains" :> Str(Lit.route))) },
      v \in { NoKeys,
              [vlans |-> Dict(<< <<Lit.v1, [id |-> Num(100), link |-> Str(Lit.eth0)]>> >>),
               bonds |-> Dict(<< <<Lit.b0, [interfaces |-> List(<<Str(Lit.eth1)>>)]>> >>)] } }

NetworkStates ==
    StatesV1 \cup StatesV1Types \cup StatesV2Dhcp \cup StatesV2Virtual \cup StatesDns
    \cup StatesOptional \cup StatesLateConflict

----------------------------------------------------------------------------
(* Renderer.render_network_state as a machine                              *)

InitRenderer ==
    /\ conf_dict = CfgParser_init
    /\ raised = "none"
    /\ calls = <<>>
    /\ final = NoText
    /\ network_state \in NetworkStates
    /\ pc = "vlans"
    /\ vlan_link = Dict(<<>>)
    /\ bond_link = Dict(<<>>)
    /\ ret_dict = Dict(<<>>)
    /\ idx = 1
    /\ cur_iface = <<>>
    /\ cur_dhcp = Lit.no
    /\ cur_rid = 0
    /\ sn = 1
    /\ pending = <<>>
    /\ files = <<>>
    /\ AuxIdle

\* _render_content: `if "vlans" in ns.config`
RenderVlans ==
    /\ pc = "vlans"
    /\ pc' = "bonds"
    /\ IF "vlans" \in DOMAIN network_state.config
       THEN LET vlan_dict == render_vlans(network_state)
            IN  /\ vlan_link' = vlan_dict.vlan_link
                /\ ret_dict' = DictSet(ret_dict, Lit.vlan_netdev, vlan_dict.vlan_netdev)
       ELSE UNCHANGED <<vlan_link, ret_dict>>
    /\ UNCHANGED <<conf_dict, raised, cfg_vars, aux_vars, network_state, bond_link, idx, cur_iface,
                   cur_dhcp, cur_rid, sn, pending, files>>

\* _render_content: `if "bonds" in ns.config`
RenderBonds ==
    /\ pc = "bonds"
    /\ pc' = "iface"
    /\ IF "bonds" \in DOMAIN network_state.config
       THEN LET bond_dict == render_bonds(network_state)
            IN  /\ bond_link' = bond_dict.bond_link
                /\ ret_dict' = DictSet(ret_dict, Lit.bond_netdev, bond_dict.bond_netdev)
       ELSE UNCHANGED <<bond_link, ret_dict>>
    /\ UNCHANGED <<conf_dict, raised, cfg_vars, aux_vars, network_state, vlan_link, idx, cur_iface,
                   cur_dhcp, cur_rid, sn, pending, files>>

\* the loop body of _render_content for the next interface, up to the loop
\* of parse_subnets
IfaceBegin ==
    /\ pc = "iface"
    /\ idx <= Len(network_state.interfaces)
    /\ LET r == iface_begin(network_state.interfaces[idx], vlan_link, bond_link)
       IN  /\ raised' = r.raised
           /\ pc' = IF r.raised = "none" THEN "subnets" ELSE "raised"
           /\ cur_iface' = r.iface
           /\ conf_dict' = r.cd
    /\ cur_dhcp' = Lit.no
    /\ cur_rid' = 0
    /\ sn' = 1
    /\ UNCHANGED <<cfg_vars, aux_vars, network_state, vlan_link, bond_link, ret_dict, idx, pending,
                   files>>

\* iface.get("subnets", [])
Subnets(i) == IF "subnets" \in DOMAIN i THEN i.subnets ELSE <<>>

\* one pass of the loop of parse_subnets
ParseSubnet ==
    /\ pc = "subnets"
    /\ sn <= Len(Subnets(cur_iface))
    /\ LET s == parse_subnet(Subnets(cur_iface)[sn],
                             [cd |-> conf_dict, dhcp |-> cur_dhcp, rid |-> cur_rid])
       IN  /\ conf_dict' = s.cd
           /\ cur_dhcp' = s.dhcp
           /\ cur_rid' = s.rid
    /\ sn' = sn + 1
    /\ UNCHANGED <<raised, cfg_vars, aux_vars, network_state, pc, vlan_link, bond_link, ret_dict,
                   idx, cur_iface, pending, files>>

\* parse_subnets after its loop
ParseSubnetsEnd ==
    /\ pc = "subnets"
    /\ sn > Len(Subnets(cur_iface))
    /\ conf_dict' = parse_subnets_end(cur_iface, conf_dict, cur_dhcp)
    /\ pc' = "finish"
    /\ UNCHANGED <<raised, cfg_vars, aux_vars, network_state, vlan_link, bond_link, ret_dict, idx,
                   cur_iface, cur_dhcp, cur_rid, sn, pending, files>>

\* the loop body of _render_content after parse_subnets: it raises, or
\* stores the unit's text under the interface's name
IfaceEnd ==
    /\ pc = "finish"
    /\ LET r == iface_end(cur_iface, conf_dict, cur_dhcp, network_state)
           g == get_final_conf(r.cd)
       IN  IF r.raised = "none"
           THEN /\ conf_dict' = g.conf_dict
                /\ ret_dict' = DictSet(ret_dict, cur_iface.name.v, Str(g.contents))
                /\ idx' = idx + 1
                /\ pc' = "iface"
                /\ UNCHANGED raised
           ELSE /\ conf_dict' = r.cd
                /\ raised' = r.raised
                /\ pc' = "raised"
                /\ UNCHANGED <<ret_dict, idx>>
    /\ UNCHANGED <<cfg_vars, aux_vars, network_state, vlan_link, bond_link, cur_iface, cur_dhcp,
                   cur_rid, sn, pending, files>>

\* _render_content returns; render_network_state pops the two netdev dicts
RenderContentReturn ==
    /\ pc = "iface"
    /\ idx > Len(network_state.interfaces)
    /\ pending' = units_to_write(ret_dict)
    /\ pc' = "write"
    /\ UNCHANGED <<conf_dict, raised, cfg_vars, aux_vars, network_state, vlan_link, bond_link,
                   ret_dict, idx, cur_iface, cur_dhcp, cur_rid, sn, files>>

\* one pass of the three loops that write the units
CreateNetworkFile ==
    /\ pc = "write"
    /\ pending # <<>>
    /\ files' = Append(files, create_network_file(pending[1].link, pending[1].conf,
                                                  pending[1].ext))
    /\ pending' = Tail(pending)
    /\ UNCHANGED <<conf_dict, raised, cfg_vars, aux_vars, network_state, pc, vlan_link, bond_link,
                   ret_dict, idx, cur_iface, cur_dhcp, cur_rid, sn>>

NextRenderer ==
    \/ RenderVlans
    \/ RenderBonds
    \/ IfaceBegin
    \/ ParseSubnet
    \/ ParseSubnetsEnd
    \/ IfaceEnd
    \/ RenderContentReturn
    \/ CreateNetworkFile

SpecRenderer == InitRenderer /\ [][NextRenderer]_vars

\* render_network_state returned
Returned == pc = "write" /\ pending = <<>>

----------------------------------------------------------------------------
(* The render as one function of the network state *)

RECURSIVE parse_subnets_loop(_, _)
\* the loop of parse_subnets over the subnets; st = [cd, dhcp, rid]
parse_subnets_loop(subnets, st) ==
    IF subnets = <<>> THEN st
    ELSE parse_subnet(subnets[Len(subnets)],
                      parse_subnets_loop(SubSeq(subnets, 1, Len(subnets) - 1), st))

\* parse_subnets: the CfgParser it leaves and the mode it returns
parse_subnets(i, cd) ==
    LET st == parse_subnets_loop(Subnets(i), [cd |-> cd, dhcp |-> Lit.no, rid |-> 0])
    IN  [cd |-> parse_subnets_end(i, st.cd, st.dhcp), dhcp |-> st.dhcp]

\* the loop body of _render_content after the MAC backfill, for the
\* interface and CfgParser b of iface_begin
render_iface_end(b, ns) ==
    LET s == parse_subnets(b.iface, b.cd)
    IN  iface_end(b.iface, s.cd, s.dhcp, ns)

\* the loop body of _render_content: the exception raised, or the unit text
render_iface(i, vlan_ln, bond_ln, ns) ==
    LET b == iface_begin(i, vlan_ln, bond_ln)
        e == render_iface_end(b, ns)
    IN  IF b.raised # "none" THEN [raised |-> b.raised, contents |-> <<>>]
        ELSE IF e.raised # "none" THEN [raised |-> e.raised, contents |-> <<>>]
        ELSE [raised |-> "none", contents |-> get_final_conf(e.cd).contents]

RECURSIVE render_ifaces(_, _, _, _, _)
\* the loop of _render_content over the interfaces; st = [raised, ret_dict]
render_ifaces(ifaces, vlan_ln, bond_ln, ns, st) ==
    IF ifaces = <<>> THEN st
    ELSE LET s1 == render_ifaces(SubSeq(ifaces, 1, Len(ifaces) - 1), vlan_ln, bond_ln,
                                 ns, st)
             i == ifaces[Len(ifaces)]
             r == render_iface(i, vlan_ln, bond_ln, ns)
         IN  IF s1.raised # "none" THEN s1
             ELSE IF r.raised # "none" THEN [raised |-> r.raised, ret_dict |-> s1.ret_dict]
             ELSE [raised |-> "none",
                   ret_dict |-> DictSet(s1.ret_dict, i.name.v, Str(r.contents))]

\* _render_content: the exception raised, or the dict of the units
_render_content(ns) ==
    LET vlan_dict == render_vlans(ns)
        bond_dict == render_bonds(ns)
        hasv == "vlans" \in DOMAIN ns.config
        hasb == "bonds" \in DOMAIN ns.config
        d1 == IF hasv THEN DictSet(Dict(<<>>), Lit.vlan_netdev, vlan_dict.vlan_netdev)
              ELSE Dict(<<>>)
        d2 == IF hasb THEN DictSet(d1, Lit.bond_netdev, bond_dict.bond_netdev) ELSE d1
    IN  render_ifaces(ns.interfaces,
                      IF hasv THEN vlan_dict.vlan_link ELSE Dict(<<>>),
                      IF hasb THEN bond_dict.bond_link ELSE Dict(<<>>),
                      ns, [raised |-> "none", ret_dict |-> d2])

\* render_network_state: the exception raised, or the files written in order
render_network_state(ns) ==
    LET r == _render_content(ns)
        units == units_to_write(r.ret_dict)
    IN  [raised |-> r.raised,
         files |-> IF r.raised # "none" THEN <<>>
                   ELSE [k \in 1..Len(units) |->
                            create_network_file(units[k].link, units[k].conf,
                                                units[k].ext)]]

----------------------------------------------------------------------------
(* Claims about the Renderer *)

\* the unit of the interface cur_iface has been stored in ret_dict
UnitDone == pc \in {"iface", "write"} /\ idx > 1

\* the text stored for cur_iface
Unit == DictGet(ret_dict, cur_iface.name.v).v

\* the line key=val, val a string
LineOf(key, val) == key \o <<"=">> \o val

\* the lines a route entry asks for
RouteLines(r) ==
    (IF "gateway" \in DOMAIN r THEN {LineOf(Lit.Gateway, r.gateway.v)} ELSE {})
    \cup (IF "network" \in DOMAIN r
          THEN {LineOf(Lit.Destination,
                       r.network.v \o (IF "prefix" \in DOMAIN r
                                       THEN <<"/">> \o Digits(r.prefix.v) ELSE <<>>))}
          ELSE {})
    \cup (IF "metric" \in DOMAIN r THEN {LineOf(Lit.Metric, Digits(r.metric.v))} ELSE {})

RECURSIVE Concat(_)
\* the concatenation of a sequence of sequences
Concat(ss) == IF ss = <<>> THEN <<>> ELSE Head(ss) \o Concat(Tail(ss))

\* the route entries of an interface: the routes its subnets declare, the
\* gateways of its subnets that have an address, and the global routes
SubnetRouteEntries(i) ==
    Concat([k \in 1..Len(Subnets(i)) |->
               IF "routes" \in DOMAIN Subnets(i)[k] THEN Subnets(i)[k].routes ELSE <<>>])
GatewaySubnets(i) ==
    SelectSeq(Subnets(i), LAMBDA e : "address" \in DOMAIN e /\ "gateway" \in DOMAIN e)
RouteEntries(i) ==
    SelectSeq(SubnetRouteEntries(i) \o network_state.routes
              \o [k \in 1..Len(GatewaySubnets(i)) |->
                     [gateway |-> GatewaySubnets(i)[k].gateway]],
              LAMBDA r : RouteLines(r) # {})

\* the [Route] stanzas of a text, each as the sequence of its lines
RouteStanzas(text) ==
    LET st == StanzasOf(text, Lit.Route)
    IN  [k \in 1..Len(st) |-> Tail(st[k])]

\* the number of places of a sequence that hold x
Count(xs, x) == Cardinality({k \in 1..Len(xs) : xs[k] = x})

\* the set of the lines of a stanza other than GatewayOnLink=yes
OwnLines(stanza) ==
    {stanza[k] : k \in 1..Len(stanza)} \ {LineOf(Lit.GatewayOnLink, Lit.yes)}

\* C3: route isolation.  When the unit of an interface is stored, its text
\* has as many [Route] stanzas as the interface has route entries (subnet
\* routes, subnet gateways, global routes, each with at least one of
\* gateway/network/metric), no stanza holds a line twice, and every set of
\* lines is held by as many stanzas as there are entries that ask for
\* exactly that set: no entry shares its stanza with another.
C3_RouteIsolation ==
    UnitDone =>
        LET st == RouteStanzas(Unit)
            got == [k \in 1..Len(st) |-> OwnLines(st[k])]
            entries == RouteEntries(cur_iface)
            exp == [k \in 1..Len(entries) |-> RouteLines(entries[k])]
        IN  /\ Len(st) = Len(entries)
            /\ \A k \in 1..Len(st) : \A m, n \in 1..Len(st[k]) : m # n => st[k][m] # st[k][n]
            /\ \A k \in 1..Len(exp) : Count(got, exp[k]) = Count(exp, exp[k])

\* a stored unit of an interface with a subnet gateway, a global route and
\* two subnets that declare the same route
C3_Witness ==
    /\ UnitDone
    /\ GatewaySubnets(cur_iface) # <<>>
    /\ network_state.routes # <<>>
    /\ \E m, n \in 1..Len(Subnets(cur_iface)) :
           /\ m # n
           /\ "routes" \in DOMAIN Subnets(cur_iface)[m]
           /\ "routes" \in DOMAIN Subnets(cur_iface)[n]
           /\ \E r \in 1..Len(Subnets(cur_iface)[m].routes) :
                  Subnets(cur_iface)[m].routes[r] = Subnets(cur_iface)[n].routes[1]

\* the set of the types of the first n subnets of an interface
TypesOf(i, n) == {Subnets(i)[k].type.v : k \in 1..n}

\* the DHCP mode of a set of subnet types
ModeOf(types) ==
    LET v4 == types \cap {Lit.dhcp4, Lit.dhcp} # {}
        v6 == Lit.dhcp6 \in types
    IN  IF v4 /\ v6 THEN Lit.yes
        ELSE IF v4 THEN Lit.ipv4
        ELSE IF v6 THEN Lit.ipv6
        ELSE Lit.no

\* the lines of the [Network] stanza of a text that set DHCP
DhcpLines(text) ==
    LET st == StanzasOf(text, Lit.Network)
        lines == Concat([k \in 1..Len(st) |-> Tail(st[k])])
    IN  SelectSeq(lines, LAMBDA l : Len(l) >= 5 /\ SubSeq(l, 1, 5) = LineOf(Lit.DHCP, <<>>))

\* C4: DHCP mode accumulation.  Inside the loop of parse_subnets the mode is
\* the mode of the set of the types seen so far (so the order of the subnets
\* does not matter), the stored unit has exactly one DHCP= line and its
\* value is the mode of the set of all the subnet types, and a pass of the
\* loop that starts with the mode "yes" leaves it "yes".
C4_DhcpMode ==
    /\ [](pc = "subnets" => cur_dhcp = ModeOf(TypesOf(cur_iface, sn - 1)))
    /\ [](UnitDone =>
            DhcpLines(Unit) =
                <<LineOf(Lit.DHCP, ModeOf(TypesOf(cur_iface, Len(Subnets(cur_iface)))))>>)
    /\ [][pc = "subnets" /\ sn' = sn + 1 /\ cur_dhcp = Lit.yes => cur_dhcp' = Lit.yes]_vars

\* a stored unit of an interface whose mode was "yes" before its last subnet
C4_Witness ==
    /\ UnitDone
    /\ Len(Subnets(cur_iface)) = 3
    /\ ModeOf(TypesOf(cur_iface, 2)) = Lit.yes
    /\ Subnets(cur_iface)[3].type.v = Lit.dhcp6
    /\ Subnets(cur_iface)[1].type.v = Lit.dhcp

RECURSIVE Bits(_, _)
\* the n low bits of the number x, the most significant first
Bits(x, n) == IF n = 0 THEN <<>> ELSE Bits(x \div 2, n - 1) \o <<x % 2>>

\* the 32 bits of a dotted-quad address
AddressBits(a) == Concat([k \in 1..4 |-> Bits(Octets(a)[k], 8)])

\* the gateway of subnet e is inside the network of e's address and prefix
\* (a subnet without a prefix is a network of one address)
GatewayInside(e) ==
    LET len == IF "prefix" \in DOMAIN e THEN e.prefix.v ELSE 32
    IN  SubSeq(AddressBits(e.gateway.v), 1, len) = SubSeq(AddressBits(e.address.v), 1, len)

\* the lines a subnet's gateway asks for
GatewayLines(e) ==
    {LineOf(Lit.Gateway, e.gateway.v)}
    \cup (IF GatewayInside(e) THEN {} ELSE {LineOf(Lit.GatewayOnLink, Lit.yes)})

\* C5: GatewayOnLink.  When the unit of an interface is stored, its [Route]
\* stanzas are, one for one, the stanzas of the gateways of its subnets that
\* have an address and a gateway, each holding Gateway=<gateway> and also
\* GatewayOnLink=yes exactly when the gateway is outside the network of the
\* subnet's address/prefix, and the stanzas of the other route entries,
\* which hold their own lines and so no GatewayOnLink line.
C5_GatewayOnLink ==
    UnitDone =>
        LET st == RouteStanzas(Unit)
            got == [k \in 1..Len(st) |-> {st[k][m] : m \in 1..Len(st[k])}]
            gws == GatewaySubnets(cur_iface)
            others == SelectSeq(SubnetRouteEntries(cur_iface) \o network_state.routes,
                                LAMBDA r : RouteLines(r) # {})
            exp == [k \in 1..Len(gws) |-> GatewayLines(gws[k])]
                   \o [k \in 1..Len(others) |-> RouteLines(others[k])]
        IN  /\ Len(got) = Len(exp)
            /\ \A k \in 1..Len(exp) : Count(got, exp[k]) = Count(exp, exp[k])

\* a stored unit of an interface with two /30 subnets: the gateway of one is
\* inside its network, the gateway of the other is outside it although it
\* is inside the /24 of the same address
C5_Witness ==
    /\ UnitDone
    /\ \E m, n \in 1..Len(GatewaySubnets(cur_iface)) :
           /\ Get(GatewaySubnets(cur_iface)[m], "prefix") = Num(30)
           /\ Get(GatewaySubnets(cur_iface)[n], "prefix") = Num(30)
           /\ GatewayInside(GatewaySubnets(cur_iface)[m])
           /\ ~GatewayInside(GatewaySubnets(cur_iface)[n])
           /\ GatewaySubnets(cur_iface)[n].gateway = Str(Lit.gw_in)

\* the ethernets entries matched to interface i: the first whose set-name
\* is the interface's name, else the one under the interface's name
MatchedDevices(i) ==
    LET eth == IF "ethernets" \in DOMAIN network_state.config
               THEN network_state.config.ethernets.v ELSE <<>>
        byset == SelectSeq(eth, LAMBDA kv : Get(kv[2], "set-name") = i.name)
        byname == SelectSeq(eth, LAMBDA kv : kv[1] = i.name.v)
    IN  IF byset # <<>> THEN {byset[1][2]} ELSE {byname[k][2] : k \in 1..Len(byname)}

\* a device that sets both dhcp<v>domain and dhcp<v>-overrides.use-domains
Conflicting(d) ==
    \/ /\ "dhcp4domain" \in DOMAIN d
       /\ "dhcp4-overrides" \in DOMAIN d
       /\ "use-domains" \in DOMAIN d["dhcp4-overrides"]
    \/ /\ "dhcp6domain" \in DOMAIN d
       /\ "dhcp6-overrides" \in DOMAIN d
       /\ "use-domains" \in DOMAIN d["dhcp6-overrides"]

\* the interface cur_iface of a version-2 state is matched to a conflicting device
ConflictHere ==
    /\ network_state.version = 2
    /\ "ethernets" \in DOMAIN network_state.config
    /\ \E d \in MatchedDevices(cur_iface) : Conflicting(d)

\* C6: the domain-override conflict is fatal.  The step of _render_content
\* that finishes an interface of a version-2 state whose matched device has
\* both dhcp<v>domain and dhcp<v>-overrides.use-domains raises RuntimeError,
\* whatever the DHCP mode, and stores no unit; so no stored unit belongs to
\* an interface with the conflict.
C6_ConflictFatal ==
    /\ [][pc = "finish" /\ ConflictHere =>
            raised' = "RuntimeError" /\ pc' = "raised" /\ ret_dict' = ret_dict]_vars
    /\ [](UnitDone => ~ConflictHere)

\* the render raised on a conflict of the dhcp6 keys of a device found by
\* its set-name, of an interface without DHCP
C6_Witness ==
    /\ pc = "raised"
    /\ raised = "RuntimeError"
    /\ cur_dhcp = Lit.no
    /\ \E d \in MatchedDevices(cur_iface) :
           /\ "set-name" \in DOMAIN d
           /\ "dhcp4domain" \notin DOMAIN d
           /\ Conflicting(d)

\* the texts written to the file of the unit `name` with extension ext
Written(name, ext) ==
    {files[k].conf : k \in {m \in 1..Len(files) :
        files[m].fn = Lit.network_conf_dir \o Lit.prefix_fn \o name \o ext}}

\* the set of the lines of the [k] stanzas of a text
LinesOf(text, k) ==
    LET st == StanzasOf(text, k)
    IN  UNION {{st[m][n] : n \in 2..Len(st[m])} : m \in 1..Len(st)}

\* the declared VLANs that have both an id and a link
WellFormedVlans ==
    IF "vlans" \in DOMAIN network_state.config
    THEN SelectSeq(network_state.config.vlans.v,
                   LAMBDA kv : "id" \in DOMAIN kv[2] /\ "link" \in DOMAIN kv[2])
    ELSE <<>>

\* the VLAN declared as kv = <<name, cfg>> has its device-definition unit and
\* its parent's primary unit refers to it
CrossReferenced(kv) ==
    /\ \E text \in Written(kv[1], Lit.ext_netdev) :
           /\ LineOf(Lit.Name, kv[1]) \in LinesOf(text, Lit.NetDev)
           /\ LineOf(Lit.Kind, Lit.vlan) \in LinesOf(text, Lit.NetDev)
           /\ LineOf(Lit.Id, Digits(kv[2].id.v)) \in LinesOf(text, Lit.VLAN)
    /\ \E text \in Written(kv[2].link.v, Lit.ext_network) :
           LineOf(Lit.VLAN, kv[1]) \in LinesOf(text, Lit.Network)

\* C7: VLAN cross-reference.  When render_network_state has returned, every
\* declared VLAN that has an id and a link has a device-definition unit with
\* [NetDev] Name=<vlan-name>, Kind=vlan and [VLAN] Id=<id>, and the primary
\* unit of the interface its link names has VLAN=<vlan-name> in [Network],
\* also when several VLANs name the same parent.
C7_VlanCrossReference ==
    Returned => \A k \in 1..Len(WellFormedVlans) : CrossReferenced(WellFormedVlans[k])

\* the declarations render_vlans and render_bonds are to skip
MalformedVlan(cfg) == "id" \notin DOMAIN cfg \/ "link" \notin DOMAIN cfg
MalformedBond(cfg) == "interfaces" \notin DOMAIN cfg \/ cfg.interfaces.v = <<>>
Declared(key) ==
    IF key \in DOMAIN network_state.config THEN network_state.config[key].v ELSE <<>>
MalformedVlans == SelectSeq(Declared("vlans"), LAMBDA kv : MalformedVlan(kv[2]))
MalformedBonds == SelectSeq(Declared("bonds"), LAMBDA kv : MalformedBond(kv[2]))

\* the network state without its malformed declarations
WithoutMalformed ==
    [network_state EXCEPT !.config =
        [k \in DOMAIN network_state.config |->
            IF k = "vlans"
            THEN Dict(SelectSeq(Declared("vlans"), LAMBDA kv : ~MalformedVlan(kv[2])))
            ELSE IF k = "bonds"
            THEN Dict(SelectSeq(Declared("bonds"), LAMBDA kv : ~MalformedBond(kv[2])))
            ELSE network_state.config[k]]]

\* no file is written for the unit `name`.netdev, and no unit refers to it
Unreferenced(name) ==
    /\ Written(name, Lit.ext_netdev) = {}
    /\ \A k \in 1..Len(files) :
           /\ LineOf(Lit.VLAN, name) \notin LinesOf(files[k].conf, Lit.Network)
           /\ LineOf(Lit.Bond, name) \notin LinesOf(files[k].conf, Lit.Network)

\* C8: malformed declarations are skipped.  The render of a state with a
\* VLAN without id or link, or a bond without interfaces or with none,
\* returns; it writes no device-definition unit for the declaration and no
\* VLAN= or Bond= line that names it; and the files it writes are those the
\* render of the state without the malformed declarations writes, so every
\* other VLAN, bond and interface is rendered as if they were absent.
C8_MalformedSkipped ==
    /\ raised = "none" \/ (MalformedVlans = <<>> /\ MalformedBonds = <<>>)
    /\ Returned =>
         /\ \A k \in 1..Len(MalformedVlans) : Unreferenced(MalformedVlans[k][1])
         /\ \A k \in 1..Len(MalformedBonds) : Unreferenced(MalformedBonds[k][1])
         /\ render_network_state(WithoutMalformed) = [raised |-> "none", files |-> files]

\* the render returned for a state with a malformed VLAN that names a parent
\* and a MAC under the name of an interface, a well-formed VLAN, a bond with
\* an empty interfaces list and a well-formed bond
C8_Witness ==
    /\ Returned
    /\ \E k \in 1..Len(MalformedVlans) :
           /\ "link" \in DOMAIN MalformedVlans[k][2]
           /\ "macaddress" \in DOMAIN MalformedVlans[k][2]
           /\ \E i \in 1..Len(network_state.interfaces) :
                  network_state.interfaces[i].name.v = MalformedVlans[k][1]
    /\ Len(Declared("vlans")) > Len(MalformedVlans)
    /\ MalformedBonds # <<>>
    /\ Len(Declared("bonds")) > Len(MalformedBonds)

\* the texts get_final_conf has returned to the render: the units stored in
\* ret_dict, those of the interfaces and those of the VLANs and bonds
ReturnedTexts ==
    LET inner(d) == {d.v[k][2].v : k \in 1..Len(d.v)}
    IN  UNION {IF ret_dict.v[k][2].t = "dict" THEN inner(ret_dict.v[k][2])
               ELSE {ret_dict.v[k][2].v} : k \in 1..Len(ret_dict.v)}

\* the number of newlines a text ends with
RECURSIVE TrailingNewlines(_)
TrailingNewlines(s) ==
    IF s = <<>> \/ s[Len(s)] # "\n" THEN 0
    ELSE 1 + TrailingNewlines(SubSeq(s, 1, Len(s) - 1))

\* C11 as stated: every non-empty text get_final_conf returns ends with
\* exactly one newline.
C11_ReturnedEndsWithOneNewline ==
    \A text \in ReturnedTexts : text # <<>> => TrailingNewlines(text) = 1

\* C11 as the code has it: every non-empty text get_final_conf returns ends
\* with a blank line (two newlines); create_network_file drops one of them,
\* so that every file written ends with exactly one newline and is the
\* returned text of its unit without its last character.
C11_CollapsedAtWrite ==
    /\ \A text \in ReturnedTexts : text # <<>> => TrailingNewlines(text) = 2
    /\ \A k \in 1..Len(files) :
           /\ TrailingNewlines(files[k].conf) = 1
           /\ files[k].conf \o <<"\n">> \in ReturnedTexts

\* the render wrote the unit of an interface and the unit of a VLAN
C11_Witness ==
    /\ Returned
    /\ \E k \in 1..Len(files) : Written(Lit.v1, Lit.ext_netdev) = {files[k].conf}
    /\ \E k \in 1..Len(files) : Written(Lit.eth0, Lit.ext_network) = {files[k].conf}

\* the directive of an override key in [DHCPv4] and in [DHCPv6]
OverrideDirective(version) ==
    ("use-dns" :> Lit.UseDNS) @@ ("use-domains" :> Lit.UseDomains)
    @@ ("use-hostname" :> Lit.UseHostname) @@ ("use-ntp" :> Lit.UseNTP)
    @@ (IF version = "4"
        THEN ("send-hostname" :> Lit.SendHostname) @@ ("hostname" :> Lit.Hostname)
             @@ ("route-metric" :> Lit.RouteMetric) @@ ("use-mtu" :> Lit.UseMTU)
             @@ ("use-routes" :> Lit.UseRoutes)
        ELSE NoKeys)

\* the lines the overrides of device d ask for in [DHCPv<version>] under
\* the DHCP mode `mode`
OverrideLines(d, mode, version) ==
    LET key == IF version = "4" THEN "dhcp4-overrides" ELSE "dhcp6-overrides"
        on == mode = Lit.yes \/ mode = (IF version = "4" THEN Lit.ipv4 ELSE Lit.ipv6)
    IN  IF key \in DOMAIN d /\ on
        THEN {LineOf(OverrideDirective(version)[k], PyStr(d[key][k])) :
                 k \in DOMAIN d[key] \cap DOMAIN OverrideDirective(version)}
        ELSE {}

\* the lines of [DHCPv<version>] of a text, without the UseDomains= line of
\* the legacy dhcp<version>domain key of device d
WrittenOverrides(text, d, version) ==
    LET sec == IF version = "4" THEN Lit.DHCPv4 ELSE Lit.DHCPv6
        legacy == IF version = "4" THEN "dhcp4domain" ELSE "dhcp6domain"
    IN  {l \in LinesOf(text, sec) :
            ~(legacy \in DOMAIN d /\ Len(l) > 11
              /\ SubSeq(l, 1, 11) = LineOf(Lit.UseDomains, <<>>))}

\* the lines of a text that belong to directives only DHCPv4 has
V4OnlyLines(lines) ==
    {l \in lines : \E w \in {Lit.Hostname, Lit.SendHostname, Lit.RouteMetric,
                             Lit.UseMTU, Lit.UseRoutes} :
        Len(l) > Len(w) /\ SubSeq(l, 1, Len(w) + 1) = LineOf(w, <<>>)}

\* C12: DHCP override gating.  With an interface finished but for its
\* device block, parse_dhcp_overrides for version v leaves the CfgParser as
\* it is unless the accumulated mode is "yes" or "ipv<v>"; and in the stored
\* unit of an interface matched to a device, [DHCPv<v>] holds the translated
\* overrides of the device exactly when the mode is "yes" or "ipv<v>" and
\* none of them otherwise, and [DHCPv6] never holds Hostname, SendHostname,
\* RouteMetric, UseMTU or UseRoutes.
C12_OverrideGating ==
    /\ pc = "finish" /\ network_state.version = 2 =>
         \A d \in MatchedDevices(cur_iface) : \A v \in {"4", "6"} :
             cur_dhcp \notin {Lit.yes, IF v = "4" THEN Lit.ipv4 ELSE Lit.ipv6} =>
                 parse_dhcp_overrides(conf_dict, d, cur_dhcp, v) = conf_dict
    /\ UnitDone =>
         /\ V4OnlyLines(LinesOf(Unit, Lit.DHCPv6)) = {}
         /\ network_state.version = 2 =>
              \A d \in MatchedDevices(cur_iface) : \A v \in {"4", "6"} :
                  WrittenOverrides(Unit, d, v) = OverrideLines(d, cur_dhcp, v)

\* a stored unit of an interface in mode "ipv4" whose device has dhcp4
\* overrides and dhcp6 overrides, use-mtu among the latter
C12_Witness ==
    /\ UnitDone
    /\ network_state.version = 2
    /\ cur_dhcp = Lit.ipv4
    /\ \E d \in MatchedDevices(cur_iface) :
           /\ "dhcp4-overrides" \in DOMAIN d
           /\ "dhcp6-overrides" \in DOMAIN d
           /\ "use-mtu" \in DOMAIN d["dhcp6-overrides"]
           /\ OverrideLines(d, cur_dhcp, "4") # {}

\* interface i has a DNS block of its own: a block with a key in it, be
\* its lists empty
OwnDns(i) == "dns" \in DOMAIN i /\ DOMAIN i.dns # {}

\* the DNS= and Domains= lines asked for by a list of name servers and a
\* list of search domains (each a sequence of str)
DnsLines(nameservers, search) ==
    (IF nameservers # <<>> THEN {LineOf(Lit.DNS, Join(<<" ">>, nameservers))} ELSE {})
    \cup (IF search # <<>> THEN {LineOf(Lit.Domains, Join(<<" ">>, search))} ELSE {})

\* the DNS= and Domains= lines of [Network] of a text
WrittenDns(text) ==
    {l \in LinesOf(text, Lit.Network) :
        \/ Len(l) >= 4 /\ SubSeq(l, 1, 4) = LineOf(Lit.DNS, <<>>)
        \/ Len(l) >= 8 /\ SubSeq(l, 1, 8) = LineOf(Lit.Domains, <<>>)}

\* no subnet of interface i carries DNS settings
NoSubnetDns(i) ==
    \A k \in 1..Len(Subnets(i)) :
        DOMAIN Subnets(i)[k] \cap {"dns_nameservers", "dns_search"} = {}

\* C13: global DNS fallback.  For an interface without a DNS block of its
\* own, parse_dns leaves the CfgParser unchanged under version 2, and the
\* stored unit has the DNS= and Domains= lines of the global settings under
\* version 1 and none under version 2; for an interface with its own block
\* the unit has the lines of that block and the global settings are unused.
C13_DnsFallback ==
    /\ pc = "finish" /\ network_state.version = 2 /\ ~OwnDns(cur_iface) =>
         parse_dns(cur_iface, conf_dict, network_state) = conf_dict
    /\ UnitDone /\ NoSubnetDns(cur_iface) =>
         WrittenDns(Unit) =
             IF OwnDns(cur_iface)
             THEN DnsLines(IF "nameservers" \in DOMAIN cur_iface.dns
                           THEN cur_iface.dns.nameservers.v ELSE <<>>,
                           IF "search" \in DOMAIN cur_iface.dns
                           THEN cur_iface.dns.search.v ELSE <<>>)
             ELSE IF network_state.version = 1
             THEN DnsLines(network_state.dns_nameservers,
                           network_state.dns_searchdomains)
             ELSE {}

\* a stored unit of a version-1 interface without a DNS block, the global
\* settings naming two servers and a search domain
C13_Witness ==
    /\ UnitDone
    /\ network_state.version = 1
    /\ "dns" \notin DOMAIN cur_iface
    /\ Len(network_state.dns_nameservers) = 2
    /\ network_state.dns_searchdomains # <<>>
    /\ Cardinality(WrittenDns(Unit)) = 2

\* the path of the unit `name` with extension ext
UnitPath(name, ext) == Lit.network_conf_dir \o Lit.prefix_fn \o name \o ext

\* the names of the declared bonds that have a non-empty interfaces list
WellFormedBonds == SelectSeq(Declared("bonds"), LAMBDA kv : ~MalformedBond(kv[2]))

\* the paths a render of network_state is to write
ExpectedPaths ==
    {UnitPath(network_state.interfaces[k].name.v, Lit.ext_network) :
        k \in 1..Len(network_state.interfaces)}
    \cup {UnitPath(WellFormedVlans[k][1], Lit.ext_netdev) : k \in 1..Len(WellFormedVlans)}
    \cup {UnitPath(WellFormedBonds[k][1], Lit.ext_netdev) : k \in 1..Len(WellFormedBonds)}

\* C14: unit set and naming.  When render_network_state has returned, the
\* files written are <dir>10-cloud-init-<name>.network for each interface
\* and <dir>10-cloud-init-<name>.netdev for each well-formed VLAN and each
\* well-formed bond, one file each and no other; no path is written twice.
C14_UnitSet ==
    Returned =>
        /\ {files[k].fn : k \in 1..Len(files)} = ExpectedPaths
        /\ \A m, n \in 1..Len(files) : m # n => files[m].fn # files[n].fn
        /\ Len(files) = Len(network_state.interfaces) + Len(WellFormedVlans)
                        + Len(WellFormedBonds)

\* the render returned for a state with a well-formed VLAN that has the name
\* of an interface, a malformed VLAN, a well-formed and a malformed bond
C14_Witness ==
    /\ Returned
    /\ \E k \in 1..Len(WellFormedVlans) : \E i \in 1..Len(network_state.interfaces) :
           network_state.interfaces[i].name.v = WellFormedVlans[k][1]
    /\ MalformedVlans # <<>>
    /\ WellFormedBonds # <<>>
    /\ MalformedBonds # <<>>

\* C15: apart from the domain-override conflict, the render never raises:
\* whatever optional fields of the model are absent, the only exception
\* _render_content raises is the RuntimeError of the conflict.
C15_NoRaiseOnAbsentField == raised \in {"none", "RuntimeError"}

\* the MACAddress= lines of the [k] stanzas of a text
MacLines(text, k) ==
    {l \in LinesOf(text, k) :
        Len(l) >= 11 /\ SubSeq(l, 1, 11) = LineOf(Lit.MACAddress, <<>>)}

\* the MACs the well-formed declarations kvs register under `name`
RegisteredMacs(kvs, name) ==
    {Lower(kvs[k][2].macaddress.v) :
        k \in {m \in 1..Len(kvs) : /\ kvs[m][1] = name
                                   /\ Has(kvs[m][2], "macaddress")}}

\* the MAC of an interface of the model after the backfill, as a set: its
\* own, else the one a VLAN registered under its name, else a bond's
MacOf(i) ==
    IF Truthy(i.mac_address) THEN {i.mac_address.v}
    ELSE IF RegisteredMacs(WellFormedVlans, i.name.v) # {}
    THEN RegisteredMacs(WellFormedVlans, i.name.v)
    ELSE RegisteredMacs(WellFormedBonds, i.name.v)

\* C17: MAC placement.  In a stored unit a MACAddress= line is in [Match]
\* only for a physical interface and in [Link] only for another type, never
\* in both, and the line carries the interface's own MAC or, when that is
\* unset, the MAC a VLAN or bond declaration registered under its name.
C17_MacPlacement ==
    UnitDone =>
        LET i == network_state.interfaces[idx - 1]
            lines == {LineOf(Lit.MACAddress, m) : m \in MacOf(i)}
        IN  /\ MacLines(Unit, Lit.Match) =
                   IF i.type = Str(Lit.physical) THEN lines ELSE {}
            /\ MacLines(Unit, Lit.Link) =
                   IF i.type # Str(Lit.physical) THEN lines ELSE {}
            /\ MacLines(Unit, Lit.Match) = {} \/ MacLines(Unit, Lit.Link) = {}

\* a stored unit of a VLAN interface without a MAC of its own whose [Link]
\* has the MAC its declaration registered
C17_Witness ==
    /\ UnitDone
    /\ network_state.interfaces[idx - 1].type = Str(Lit.vlan)
    /\ ~Truthy(network_state.interfaces[idx - 1].mac_address)
    /\ RegisteredMacs(WellFormedVlans, cur_iface.name.v) # {}
    /\ MacLines(Unit, Lit.Link) # {}
    /\ MacLines(Unit, Lit.Match) = {}

\* the subnets of interface i that carry the key k
SubnetsWith(i, k) == {n \in 1..Len(Subnets(i)) : k \in DOMAIN Subnets(i)[n]}

\* C18: subnet DNS.  For every subnet of the interface that carries
\* dns_nameservers (dns_search), with or without an address, [Network] of the
\* stored unit has the line DNS= (Domains=) of that list joined by spaces.
C18_SubnetDns ==
    UnitDone =>
        /\ \A n \in SubnetsWith(cur_iface, "dns_nameservers") :
               LineOf(Lit.DNS, Join(<<" ">>, Subnets(cur_iface)[n].dns_nameservers))
                   \in LinesOf(Unit, Lit.Network)
        /\ \A n \in SubnetsWith(cur_iface, "dns_search") :
               LineOf(Lit.Domains, Join(<<" ">>, Subnets(cur_iface)[n].dns_search))
                   \in LinesOf(Unit, Lit.Network)

\* the same for the subnets that have an address
C18_AddressedSubnetDns ==
    UnitDone =>
        /\ \A n \in SubnetsWith(cur_iface, "dns_nameservers")
                    \cap SubnetsWith(cur_iface, "address") :
               LineOf(Lit.DNS, Join(<<" ">>, Subnets(cur_iface)[n].dns_nameservers))
                   \in LinesOf(Unit, Lit.Network)
        /\ \A n \in SubnetsWith(cur_iface, "dns_search")
                    \cap SubnetsWith(cur_iface, "address") :
               LineOf(Lit.Domains, Join(<<" ">>, Subnets(cur_iface)[n].dns_search))
                   \in LinesOf(Unit, Lit.Network)

----------------------------------------------------------------------------
(* normalize as a machine: one call on an argument drawn from NormInputs *)

MaxKeys == 2

\* the top-level keys of an argument
NormKeys == {Lit.Route, Lit.Match, Lit.Address}

\* the values under the top-level keys: lists of comparable, incomparable
\* and nested elements, a dict (as under Route) and a scalar
NormValues ==
    { List(<<>>),
      List(<<Str(Lit.yes), Str(Lit.no)>>),
      List(<<Num(2), Num(1), Num(2)>>),
      List(<<Bool(TRUE), Num(0)>>),
      List(<<Str(Lit.yes), Num(1)>>),
      List(<<Num(3), None, Num(1)>>),
      List(<<Dict(<< <<Lit.Gateway, Num(1)>>, <<Lit.Destination, Num(2)>> >>),
             Dict(<< <<Lit.Destination, Num(1)>> >>)>>),
      List(<<List(<<Num(2), Num(1)>>), List(<<Num(1), Num(3)>>)>>),
      List(<<List(<<Str(Lit.no)>>), List(<<Num(1)>>)>>),
      Dict(<< <<Lit.Gateway, List(<<Num(2), Num(1)>>)>>,
              <<Lit.Destination, Str(Lit.yes)>> >>),
      Str(Lit.yes) }

\* the arguments: dicts of at most MaxKeys keys in any insertion order
NormInputs ==
    UNION { { Dict([i \in 1..Len(ks) |-> <<ks[i], vs[i]>>]) :
              vs \in [1..Len(ks) -> NormValues] } :
            ks \in DistinctSeqs(NormKeys, MaxKeys) }

InitNormalize ==
    /\ conf_dict = CfgParser_init
    /\ raised = "none"
    /\ calls = <<>>
    /\ final = NoText
    /\ RenderIdle
    /\ norm_in \in NormInputs
    /\ norm_out = <<>>
    /\ OpcIdle
    /\ OraIdle

\* normalized = normalize(data); the argument is only read
Normalize ==
    /\ norm_out = <<>>
    /\ norm_out' = normalize(norm_in)
    /\ UNCHANGED <<conf_dict, raised, cfg_vars, render_vars, norm_in, opc_vars, ora_vars>>

NextNormalize == Normalize

SpecNormalize == InitNormalize /\ [][NextNormalize]_vars

----------------------------------------------------------------------------
(* Claims about normalize *)

RECURSIVE Equivalent(_, _)
\* x and y hold the same elements: dicts the same keys with equivalent
\* values, lists equivalent elements one for one in some order
Equivalent(x, y) ==
    CASE x.t = "dict" /\ y.t = "dict" ->
           /\ Len(x.v) = Len(y.v)
           /\ \A i \in 1..Len(x.v) :
                  /\ DictHas(y, x.v[i][1])
                  /\ Equivalent(x.v[i][2], DictGet(y, x.v[i][1]))
      [] x.t = "list" /\ y.t = "list" ->
           /\ Len(x.v) = Len(y.v)
           /\ \E p \in Permutations(1..Len(x.v)) :
                  \A i \in 1..Len(x.v) : Equivalent(x.v[i], y.v[p[i]])
      [] OTHER -> x = y

\* the elements of xs are mutually comparable
MutuallyComparable(xs) == \A i, j \in 1..Len(xs) : i < j => Comparable(xs[i], xs[j])

RECURSIVE Canonical(_)
\* every dict in x has its keys in ascending order and every list of mutually
\* comparable elements in x is ascending
Canonical(x) ==
    CASE x.t = "dict" ->
           /\ StrictlyAscending(DictKeys(x))
           /\ \A i \in 1..Len(x.v) : Canonical(x.v[i][2])
      [] x.t = "list" ->
           /\ \A i \in 1..Len(x.v) : Canonical(x.v[i])
           /\ MutuallyComparable(x.v) =>
                  \A i, j \in 1..Len(x.v) : i < j => ~PyLess(x.v[j], x.v[i])
      [] OTHER -> TRUE

RECURSIVE KeepsOrder(_, _)
\* every list of y whose elements are not mutually comparable has the
\* elements of the list of x it comes from in their order
KeepsOrder(x, y) ==
    CASE x.t = "dict" /\ y.t = "dict" ->
           \A i \in 1..Len(x.v) : KeepsOrder(x.v[i][2], DictGet(y, x.v[i][1]))
      [] x.t = "list" /\ y.t = "list" ->
           MutuallyComparable(y.v) \/
               \A i \in 1..Len(x.v) : /\ Equivalent(x.v[i], y.v[i])
                                      /\ KeepsOrder(x.v[i], y.v[i])
      [] OTHER -> TRUE

\* the value returned holds the elements of the argument, every value under
\* a top-level key in canonical form
NormalizedValues ==
    /\ norm_out.t = "dict"
    /\ Equivalent(norm_in, norm_out)
    /\ KeepsOrder(norm_in, norm_out)
    /\ \A i \in 1..Len(norm_out.v) : Canonical(norm_out.v[i][2])

----------------------------------------------------------------------------
(* DataSourceOracle: read_opc_metadata *)

\* s[i:].startswith(sub)
StartsAt(s, sub, i) ==
    i + Len(sub) - 1 <= Len(s) /\ SubSeq(s, i, i + Len(sub) - 1) = sub

\* `sub in s` for strings
Contains(s, sub) == \E i \in 1..(Len(s) + 1) : StartsAt(s, sub, i)

RECURSIVE Replace(_, _, _)
\* s.replace(old, new): every occurrence, left to right
Replace(s, old, new) ==
    IF s = <<>> THEN <<>>
    ELSE IF StartsAt(s, old, 1)
         THEN new \o Replace(SubSeq(s, Len(old) + 1, Len(s)), old, new)
         ELSE <<s[1]>> \o Replace(Tail(s), old, new)

\* pattern.format(version=version, path=path)
Format(pattern, version, path) ==
    Replace(Replace(pattern, Lit.fmt_version, PyStr(Num(version))), Lit.fmt_path, path)

\* the always-two reading of a URL's version
_url_version_two(url) == 2

_url_version(url) == IF Contains(url, Lit.opc_v2) THEN 2 ELSE 1

\* the list comprehension of read_opc_metadata: for version in [2, 1], for
\* metadata_pattern in metadata_patterns
instance_urls(patterns) ==
    [i \in 1..(2 * Len(patterns)) |->
        Format(patterns[((i - 1) % Len(patterns)) + 1],
               IF i <= Len(patterns) THEN 2 ELSE 1, Lit.instance)]

\* json.loads of the response of url: the document served there
Document(url) == [served_at |-> url]

ReadOpcMetadataResponse(version, instance_data, vnics_data, imds_url_used) ==
    [version |-> version, instance_data |-> instance_data,
     vnics_data |-> vnics_data, imds_url_used |-> imds_url_used]

\* the passes wait_for_url makes over its urls before max_wait is over
MaxRounds == 2

\* wait_for_url(urls=us, connect_synchronously=True): the url of its next
\* request, n requests made, in pass number `round` over us in order
wait_for_url_next(us, n, round) == us[n - (round - 1) * Len(us) + 1]

\* the values of metadata_patterns: the default, that of _get_data, its reverse
PatternLists ==
    { <<Lit.IPV4_METADATA_PATTERN>>,
      <<Lit.IPV6_METADATA_PATTERN, Lit.IPV4_METADATA_PATTERN>>,
      <<Lit.IPV4_METADATA_PATTERN, Lit.IPV6_METADATA_PATTERN>> }

InitOpc ==
    /\ conf_dict = CfgParser_init
    /\ raised = "none"
    /\ calls = <<>>
    /\ final = NoText
    /\ RenderIdle
    /\ NormIdle
    /\ opc_pc = "start"
    /\ metadata_patterns \in PatternLists
    /\ fetch_vnics_data \in BOOLEAN
    /\ urls = <<>>
    /\ tried = <<>>
    /\ opc_round = 0
    /\ url_that_worked = <<>>
    /\ opc_ret = <<>>
    /\ OraIdle

OpcUnchanged == UNCHANGED <<conf_dict, raised, cfg_vars, render_vars, norm_vars, ora_vars>>

\* read_opc_metadata up to the first wait_for_url
ReadOpcMetadata ==
    /\ opc_pc = "start"
    /\ urls' = instance_urls(metadata_patterns)
    /\ opc_pc' = "instance"
    /\ opc_round' = 1
    /\ UNCHANGED <<metadata_patterns, fetch_vnics_data, tried, url_that_worked, opc_ret>>
    /\ OpcUnchanged

\* the first wait_for_url: one request, for the next of urls in the pass.
\* An answer ends the wait; after the last url of a pass that did not answer
\* either max_wait is over or another pass begins.  Without vnics data to
\* fetch, or without an answer, read_opc_metadata returns.
TryInstanceUrl ==
    /\ opc_pc = "instance"
    /\ LET k == Len(tried) - (opc_round - 1) * Len(urls) + 1
           url == wait_for_url_next(urls, Len(tried), opc_round)
       IN  \E ok \in BOOLEAN, timeup \in BOOLEAN :
               /\ tried' = Append(tried, [url |-> url, ok |-> ok])
               /\ IF ok
                  THEN /\ url_that_worked' = url
                       /\ IF fetch_vnics_data
                          THEN /\ opc_pc' = "vnics"
                               /\ opc_round' = 1
                               /\ UNCHANGED opc_ret
                          ELSE /\ opc_pc' = "done"
                               /\ opc_ret' = ReadOpcMetadataResponse(
                                      _url_version(url), Document(url), None, url)
                               /\ UNCHANGED opc_round
                       /\ timeup = FALSE
                  ELSE /\ UNCHANGED url_that_worked
                       /\ IF k < Len(urls)
                          THEN /\ timeup = FALSE
                               /\ UNCHANGED <<opc_pc, opc_round, opc_ret>>
                          ELSE IF timeup \/ opc_round = MaxRounds
                          THEN /\ timeup = TRUE
                               /\ opc_pc' = "done"
                               /\ opc_ret' = None
                               /\ UNCHANGED opc_round
                          ELSE /\ opc_round' = opc_round + 1
                               /\ UNCHANGED <<opc_pc, opc_ret>>
    /\ UNCHANGED <<metadata_patterns, fetch_vnics_data, urls>>
    /\ OpcUnchanged

\* the second wait_for_url, on the one url made of url_that_worked, and the
\* return of read_opc_metadata
TryVnicsUrl ==
    /\ opc_pc = "vnics"
    /\ LET url == wait_for_url_next(
                      <<Replace(url_that_worked, Lit.instance, Lit.vnics)>>,
                      opc_round - 1, opc_round)
       IN  \E ok \in BOOLEAN, timeup \in BOOLEAN :
               /\ tried' = Append(tried, [url |-> url, ok |-> ok])
               /\ IF ok \/ timeup \/ opc_round = MaxRounds
                  THEN /\ opc_pc' = "done"
                       /\ opc_ret' = ReadOpcMetadataResponse(
                              _url_version(url_that_worked), Document(url_that_worked),
                              IF ok THEN Document(url) ELSE None, url_that_worked)
                       /\ ok => ~timeup
                       /\ opc_round = MaxRounds => ~timeup
                       /\ UNCHANGED opc_round
                  ELSE /\ opc_round' = opc_round + 1
                       /\ UNCHANGED <<opc_pc, opc_ret>>
    /\ UNCHANGED <<metadata_patterns, fetch_vnics_data, urls, url_that_worked>>
    /\ OpcUnchanged

NextOpc == ReadOpcMetadata \/ TryInstanceUrl \/ TryVnicsUrl

SpecOpc == InitOpc /\ [][NextOpc]_vars

----------------------------------------------------------------------------
(* Claims about read_opc_metadata *)

\* the endpoints of the metadata service: address family, version, path
Endpoints ==
    [host : {Lit.host4, Lit.host6}, version : {1, 2}, path : {Lit.instance, Lit.vnics}]

\* the URL of an endpoint, written out
UrlOf(e) == e.host \o Lit.opc_v \o Digits(e.version) \o <<"/">> \o e.path \o <<"/">>

EndpointOf(url) == CHOOSE e \in Endpoints : UrlOf(e) = url

\* the address family a pattern is of
HostOf(pattern) == IF pattern = Lit.IPV4_METADATA_PATTERN THEN Lit.host4 ELSE Lit.host6

\* the requests for instance data and for vnics data (positions in tried)
InstanceTries == {i \in 1..Len(tried) : EndpointOf(tried[i].url).path = Lit.instance}
VnicsTries == {i \in 1..Len(tried) : EndpointOf(tried[i].url).path = Lit.vnics}

\* the position of the address family of request i in metadata_patterns
PatternIndex(i) ==
    CHOOSE k \in 1..Len(metadata_patterns) :
        HostOf(metadata_patterns[k]) = EndpointOf(tried[i].url).host

\* C20: endpoint consistency of read_opc_metadata.  A version-1 instance URL
\* is requested only after every version-2 instance URL has been, the URLs
\* of one version in the order of metadata_patterns; the result is None
\* exactly when no instance request was answered; vnics data is requested
\* only when asked for and only at the endpoint of the answered instance URL
\* (same version, same address family); the version returned is that of
\* this URL; and a result whose vnics request failed has vnics_data None.
C20_EndpointConsistency ==
    /\ \A j \in InstanceTries :
           EndpointOf(tried[j].url).version = 1 =>
               \A k \in 1..Len(metadata_patterns) :
                   \E i \in 1..(j - 1) :
                       tried[i].url = UrlOf([host |-> HostOf(metadata_patterns[k]),
                                             version |-> 2, path |-> Lit.instance])
    /\ \A i, j \in InstanceTries :
           /\ i < j /\ j <= Len(urls)
           /\ EndpointOf(tried[i].url).version = EndpointOf(tried[j].url).version
           => PatternIndex(i) < PatternIndex(j)
    /\ \A i \in VnicsTries :
           /\ fetch_vnics_data
           /\ url_that_worked # <<>>
           /\ EndpointOf(tried[i].url) =
                  [EndpointOf(url_that_worked) EXCEPT !.path = Lit.vnics]
    /\ opc_pc = "done" =>
           /\ opc_ret = None <=> \A i \in InstanceTries : ~tried[i].ok
           /\ opc_ret # None =>
                  /\ \E i \in InstanceTries :
                         tried[i].ok /\ tried[i].url = opc_ret.imds_url_used
                  /\ opc_ret.version = EndpointOf(opc_ret.imds_url_used).version
                  /\ opc_ret.instance_data = Document(opc_ret.imds_url_used)
                  /\ opc_ret.vnics_data = None <=> \A i \in VnicsTries : ~tried[i].ok
                  /\ fetch_vnics_data => VnicsTries # {}

\* a call that asked for vnics data and returned a version-1 result without
\* it: no version-2 URL answered, a version-1 URL did, the vnics URL did not
C20_Witness ==
    /\ opc_pc = "done"
    /\ fetch_vnics_data
    /\ opc_ret # None
    /\ opc_ret.version = 1
    /\ opc_ret.vnics_data = None
    /\ Len(metadata_patterns) = 2
    /\ VnicsTries # {}

----------------------------------------------------------------------------
(* DataSourceOracle: _get_data and the network_config property *)

\* read_opc_metadata as one call, against a service where the URLs of the
\* set `answers` answer and no other does
read_opc_metadata(fetch, patterns, answers) ==
    LET us == instance_urls(patterns)
        A == {i \in 1..Len(us) : us[i] \in answers}
    IN  IF A = {} THEN None
        ELSE LET u == us[CHOOSE i \in A : \A j \in A : i <= j]
                 vu == Replace(u, Lit.instance, Lit.vnics)
             IN  ReadOpcMetadataResponse(
                     _url_version(u), Document(u),
                     IF fetch /\ vu \in answers THEN Document(vu) ELSE None, u)

\* get_interfaces_by_mac(): the interfaces of the machine
interfaces_by_mac == (Lower(Lit.mac1) :> Lit.eth0) @@ (Lit.mac2 :> Lit.eth1)

\* the interfaces is_netfail_master() holds for
NetfailMasters == {Lit.eth1}

\* bool(self._network_config.get("config", []))
_has_network_config(nc) == "config" \in DOMAIN nc /\ nc.config # <<>>

\* ipaddress.ip_network(net).prefixlen
prefixlen(net) ==
    LET p == Split(net, "/")
    IN  IF Len(p) = 2 THEN ParseNat(p[2])
        ELSE IF Contains(net, <<":">>) THEN 128 ELSE 32

\* vnic_dict.get(k, False) as a condition
VnicHas(vnic_dict, k) == k \in DOMAIN vnic_dict /\ vnic_dict[k] # <<>>

\* one pass of the loop of _add_network_config_from_opc_imds: the interfaces
\* appended (none for a MAC the machine has not), or a KeyError
vnic_interface(vnic_dict, is_primary) ==
    IF "macAddr" \notin DOMAIN vnic_dict THEN [raised |-> TRUE, add |-> <<>>]
    ELSE LET mac_address == Lower(vnic_dict.macAddr)
             is_ipv6_only == /\ VnicHas(vnic_dict, "ipv6VirtualRouterIp")
                             /\ ~VnicHas(vnic_dict, "privateIp")
             net_key == IF is_ipv6_only THEN "ipv6Addresses" ELSE "subnetCidrBlock"
         IN  IF mac_address \notin DOMAIN interfaces_by_mac
             THEN [raised |-> FALSE, add |-> <<>>]
             ELSE IF net_key \notin DOMAIN vnic_dict
                     \/ (is_ipv6_only /\ vnic_dict.ipv6Addresses = <<>>)
             THEN [raised |-> TRUE, add |-> <<>>]
             ELSE LET network == IF is_ipv6_only THEN vnic_dict.ipv6Addresses[1]
                                 ELSE vnic_dict.subnetCidrBlock
                      len == PyStr(Num(prefixlen(network)))
                      static(a) == [type |-> Lit.static, address |-> a \o <<"/">> \o len]
                      subnets ==
                          IF is_primary
                          THEN << [type |-> IF is_ipv6_only THEN Lit.dhcp6 ELSE Lit.dhcp] >>
                          ELSE (IF VnicHas(vnic_dict, "privateIp")
                                THEN <<static(vnic_dict.privateIp)>> ELSE <<>>)
                               \o (IF VnicHas(vnic_dict, "ipv6Addresses")
                                   THEN <<static(vnic_dict.ipv6Addresses[1])>> ELSE <<>>)
                  IN  [raised |-> FALSE,
                       add |-> << [name |-> interfaces_by_mac[mac_address],
                                   type |-> Lit.physical,
                                   mac_address |-> mac_address,
                                   mtu |-> 9000,
                                   subnets |-> subnets] >>]

RECURSIVE add_vnics(_, _, _)
\* the loop of _add_network_config_from_opc_imds over vnics_data: the
\* config after it, the passes before an exception having appended
add_vnics(vnics_data, set_primary, config) ==
    IF vnics_data = <<>> THEN [raised |-> FALSE, config |-> config]
    ELSE LET before == add_vnics(SubSeq(vnics_data, 1, Len(vnics_data) - 1),
                                 set_primary, config)
             r == vnic_interface(vnics_data[Len(vnics_data)],
                                 set_primary /\ Len(vnics_data) = 1)
         IN  IF before.raised THEN before
             ELSE [raised |-> r.raised, config |-> before.config \o r.add]

\* _add_network_config_from_opc_imds: the network config after the call,
\* and whether the call raised
_add_network_config_from_opc_imds(nc, vd, set_primary) ==
    IF vd = None THEN [raised |-> FALSE, nc |-> nc]
    ELSE IF ~set_primary /\ vd.v = <<>> THEN [raised |-> TRUE, nc |-> nc]
    ELSE IF ~set_primary /\ "nicIndex" \in DOMAIN vd.v[1] THEN [raised |-> FALSE, nc |-> nc]
    ELSE LET r == add_vnics(IF set_primary THEN vd.v ELSE Tail(vd.v), set_primary,
                            nc.config)
         IN  [raised |-> r.raised, nc |-> [nc EXCEPT !.config = r.config]]

\* _ensure_netfailover_safe on a version-1 config: a physical interface
\* that is a netfail master loses its mac_address
_ensure_netfailover_safe(nc) ==
    [nc EXCEPT !.config =
        [i \in 1..Len(nc.config) |->
            LET cfg == nc.config[i]
            IN  IF /\ "type" \in DOMAIN cfg /\ cfg.type = Lit.physical
                   /\ "mac_address" \in DOMAIN cfg
                   /\ cfg.mac_address \in DOMAIN interfaces_by_mac
                   /\ interfaces_by_mac[cfg.mac_address] \in NetfailMasters
                THEN [k \in DOMAIN cfg \ {"mac_address"} |-> cfg[k]]
                ELSE cfg]]

\* the config the primary-NIC step of network_config leaves: that of the
\* initramfs source, its first interface marked, when the source applies
iscsi_config(nc, src) ==
    IF ~src.files THEN [raised |-> "none", nc |-> nc]
    ELSE IF src.rendered.config = <<>>
    THEN [raised |-> "IndexError", nc |-> src.rendered]
    ELSE [raised |-> "none",
          nc |-> [src.rendered EXCEPT
                    !.config[1] = [keep_configuration |-> TRUE] @@ @]]

\* the body of the network_config property past the cache test: the
\* exception it raises, self._network_config after it, the value returned
network_config(nc, vd, src, cfg) ==
    LET p == iscsi_config(nc, src)
        set_primary == ~_has_network_config(p.nc)
    IN  IF p.raised # "none" THEN [raised |-> p.raised, nc |-> p.nc]
        ELSE [raised |-> "none",
              nc |-> _ensure_netfailover_safe(
                         IF set_primary \/ cfg.configure_secondary_nics
                         THEN _add_network_config_from_opc_imds(p.nc, vd, set_primary).nc
                         ELSE p.nc)]

\* the interfaces a vnics document describes
VnicA == [macAddr |-> Lit.mac1, privateIp |-> Lit.ip_a, subnetCidrBlock |-> Lit.cidr_a]
VnicB == [macAddr |-> Lit.mac2, privateIp |-> Lit.gw_near, subnetCidrBlock |-> Lit.cidr_a]
Vnic6 == [macAddr |-> Lit.mac1, ipv6VirtualRouterIp |-> Lit.ip6_gw,
          ipv6Addresses |-> <<Lit.ip6_a>>]

\* the vnics documents the service serves: virtual machine and bare metal,
\* an unknown MAC, an entry without its subnet, an empty document
VnicLists ==
    { <<>>, <<VnicA>>, <<VnicA, VnicB>>, <<Vnic6, VnicB>>,
      <<VnicA @@ [nicIndex |-> 0], VnicB>>,
      <<[macAddr |-> Lit.mac3, privateIp |-> Lit.ip_a, subnetCidrBlock |-> Lit.cidr_a],
        VnicB>>,
      <<[macAddr |-> Lit.mac1, privateIp |-> Lit.ip_a]>> }

\* the URLs that answer: none, version 2 over IPv4 with and without its
\* vnics URL, version 1 over IPv6
AnswerSets ==
    { {},
      {Format(Lit.IPV4_METADATA_PATTERN, 2, Lit.instance)},
      {Format(Lit.IPV4_METADATA_PATTERN, 2, Lit.instance),
       Format(Lit.IPV4_METADATA_PATTERN, 2, Lit.vnics)},
      {Format(Lit.IPV6_METADATA_PATTERN, 1, Lit.instance),
       Format(Lit.IPV6_METADATA_PATTERN, 1, Lit.vnics)} }

EmptyConfig == [config |-> <<>>, version |-> 1]

\* the initramfs source: not applicable; applicable, rendering the boot
\* interface; applicable, rendering no interface
IscsiSources ==
    { [files |-> FALSE, rendered |-> EmptyConfig],
      [files |-> TRUE,
       rendered |-> [config |-> << [type |-> Lit.physical, name |-> Lit.eth0,
                                    mac_address |-> Lower(Lit.mac1),
                                    subnets |-> << [type |-> Lit.dhcp] >>] >>,
                     version |-> 1]],
      [files |-> TRUE, rendered |-> EmptyConfig] }

\* the reads of network_config a run makes
MaxGets == 2

\* DataSourceOracle.__init__
InitOracle ==
    /\ conf_dict = CfgParser_init
    /\ raised = "none"
    /\ calls = <<>>
    /\ final = NoText
    /\ RenderIdle
    /\ NormIdle
    /\ OpcIdle
    /\ ora_pc = "new"
    /\ _network_config = EmptyConfig
    /\ _vnics_data = None
    /\ _network_config_source \in IscsiSources
    /\ ds_cfg \in [configure_secondary_nics : BOOLEAN]
    /\ imds \in [answers : AnswerSets, vnics : VnicLists]
    /\ nc_calls = 0
    /\ nc_ret = <<>>

OraUnchanged == UNCHANGED <<conf_dict, cfg_vars, render_vars, norm_vars, opc_vars>>

\* _get_data, run before network_config is read: the vnics data is kept when
\* read_opc_metadata has a result
GetData ==
    /\ ora_pc = "new"
    /\ nc_calls = 0
    /\ LET fetched == read_opc_metadata(
                          ~_network_config_source.files \/ ds_cfg.configure_secondary_nics,
                          <<Lit.IPV6_METADATA_PATTERN, Lit.IPV4_METADATA_PATTERN>>,
                          imds.answers)
       IN  IF fetched = None
           THEN /\ ora_pc' = "failed"
                /\ UNCHANGED _vnics_data
           ELSE /\ ora_pc' = "crawled"
                /\ _vnics_data' = IF fetched.vnics_data = None THEN None
                                  ELSE List(imds.vnics)
    /\ UNCHANGED <<raised, _network_config, _network_config_source, ds_cfg, imds,
                   nc_calls, nc_ret>>
    /\ OraUnchanged

\* a read of the network_config property
NetworkConfig ==
    /\ ora_pc \in {"new", "crawled"}
    /\ nc_calls < MaxGets
    /\ nc_calls' = nc_calls + 1
    /\ IF _has_network_config(_network_config)
       THEN /\ nc_ret' = _network_config
            /\ raised' = "none"
            /\ UNCHANGED _network_config
       ELSE LET r == network_config(_network_config, _vnics_data,
                                    _network_config_source, ds_cfg)
            IN  /\ raised' = r.raised
                /\ _network_config' = r.nc
                /\ nc_ret' = IF r.raised = "none" THEN r.nc ELSE nc_ret
    /\ UNCHANGED <<ora_pc, _vnics_data, _network_config_source, ds_cfg, imds>>
    /\ OraUnchanged

NextOracle == GetData \/ NetworkConfig

SpecOracle == InitOracle /\ [][NextOracle]_vars

----------------------------------------------------------------------------
(* Claims about DataSourceOracle.network_config *)

\* the initramfs source is applicable and renders a non-empty config
SourceYields ==
    _network_config_source.files /\ _network_config_source.rendered.config # <<>>

\* the vnics data names a primary VNIC the machine has, with its subnet
PrimaryVnicUsable ==
    /\ _vnics_data # None
    /\ _vnics_data.v # <<>>
    /\ ~vnic_interface(_vnics_data.v[1], TRUE).raised
    /\ vnic_interface(_vnics_data.v[1], TRUE).add # <<>>

\* C16: primary NIC priority.  A read of network_config never raises; when
\* the initramfs source is applicable and renders a non-empty config the
\* value returned begins with that config and no interface after it is the
\* primary VNIC of IMDS; when the source yields no config the primary VNIC
\* of IMDS, if the vnics data has a usable one, is the first interface, with
\* a DHCP subnet.
C16_PrimaryPriority ==
    nc_calls > 0 =>
        /\ raised = "none"
        /\ SourceYields =>
               LET own == _network_config_source.rendered.config
               IN  /\ Len(nc_ret.config) >= Len(own)
                   /\ \A i \in 1..Len(own) : nc_ret.config[i].name = own[i].name
                   /\ nc_ret.config[1].keep_configuration
                   /\ \A i \in (Len(own) + 1)..Len(nc_ret.config) :
                          /\ nc_ret.config[i].subnets # << [type |-> Lit.dhcp] >>
                          /\ nc_ret.config[i].subnets # << [type |-> Lit.dhcp6] >>
                          /\ _vnics_data # None =>
                                 \E k \in 2..Len(_vnics_data.v) :
                                     nc_ret.config[i].name =
                                         interfaces_by_mac[Lower(_vnics_data.v[k].macAddr)]
        /\ ~SourceYields /\ PrimaryVnicUsable =>
               /\ nc_ret.config # <<>>
               /\ nc_ret.config[1].name =
                      interfaces_by_mac[Lower(_vnics_data.v[1].macAddr)]
               /\ nc_ret.config[1].subnets \in
                      {<< [type |-> Lit.dhcp] >>, << [type |-> Lit.dhcp6] >>}

\* the same where the initramfs source is not both applicable and empty
C16_UnlessAppliesEmpty ==
    (_network_config_source.files => SourceYields) => C16_PrimaryPriority

\* the file name fn ends with the extension ext
EndsWith(fn, ext) ==
    Len(fn) >= Len(ext) /\ SubSeq(fn, Len(fn) - Len(ext) + 1, Len(fn)) = ext

\* C21: all-or-nothing output.  A render that raised the RuntimeError of the
\* domain-override conflict has written no file; a file is written only
\* once the text of every interface has been computed; and no .network file
\* is written after a .netdev file.
C21_AllOrNothing ==
    /\ raised = "RuntimeError" => files = <<>>
    /\ files # <<>> =>
           /\ raised = "none"
           /\ pc = "write"
           /\ idx > Len(network_state.interfaces)
    /\ \A i, j \in 1..Len(files) :
           i < j /\ EndsWith(files[j].fn, Lit.ext_network)
           => EndsWith(files[i].fn, Lit.ext_network)
    /\ \A i \in 1..Len(files) :
           EndsWith(files[i].fn, Lit.ext_network) \/ EndsWith(files[i].fn, Lit.ext_netdev)

\* the conflict raised on the second interface, the unit of the first and
\* those of a VLAN and a bond computed, and nothing written
C21_Witness ==
    /\ pc = "raised"
    /\ raised = "RuntimeError"
    /\ idx = 2
    /\ DictHas(ret_dict, Lit.eth0)
    /\ DictHas(ret_dict, Lit.vlan_netdev)
    /\ DictGet(ret_dict, Lit.vlan_netdev).v # <<>>
    /\ files = <<>>

\* the lines UseDomains=... of the [k] stanzas of a text, one per place
UseDomainsPlaces(text, k) ==
    LET st == StanzasOf(text, k)
    IN  {<<m, n>> \in (1..Len(st)) \X (1..Len(text)) :
            /\ n >= 2 /\ n <= Len(st[m])
            /\ Len(st[m][n]) >= 11
            /\ SubSeq(st[m][n], 1, 11) = LineOf(Lit.UseDomains, <<>>)}

\* the UseDomains value a legacy toggle value stands for
ToggleValue(x) ==
    LET s == Lower(PyStr(x))
    IN  IF s \in {Lit.true, <<"1">>, Lit.on, Lit.yes} THEN Lit.yes
        ELSE IF s = Lit.route THEN Lit.route
        ELSE Lit.no

\* C22: legacy domain toggle.  When the unit of a version-2 interface is
\* stored and its ethernets device carries dhcp4domain (dhcp6domain), with
\* no use-domains override in conflict, the text has one [DHCPv4]
\* ([DHCPv6]) stanza with exactly one UseDomains= line; its value is yes
\* for a boolean-like true value, route for "route" and no for every other
\* value, so always one of yes, no, route; and this holds whatever DHCP
\* mode the subnets of the interface accumulated.
C22_LegacyDomainToggle ==
    (UnitDone /\ network_state.version = 2) =>
        \A d \in MatchedDevices(cur_iface) : \A version \in {"4", "6"} :
            DomainKey(version) \in DOMAIN d =>
                /\ ~Conflicting(d)
                /\ Len(StanzasOf(Unit, DhcpSection(version))) = 1
                /\ Cardinality(UseDomainsPlaces(Unit, DhcpSection(version))) = 1
                /\ \A p \in UseDomainsPlaces(Unit, DhcpSection(version)) :
                       LET l == StanzasOf(Unit, DhcpSection(version))[p[1]][p[2]]
                       IN  /\ l = LineOf(Lit.UseDomains, ToggleValue(d[DomainKey(version)]))
                           /\ l \in {LineOf(Lit.UseDomains, w) :
                                        w \in {Lit.yes, Lit.no, Lit.route}}

\* the unit of an interface with DHCP off whose device has the invalid
\* toggle value "maybe" is stored with UseDomains=no in [DHCPv4]
C22_Witness ==
    /\ UnitDone
    /\ network_state.version = 2
    /\ cur_dhcp = Lit.no
    /\ \E d \in MatchedDevices(cur_iface) :
           /\ "dhcp4domain" \in DOMAIN d
           /\ d.dhcp4domain = Str(Lit.maybe)
    /\ LineOf(Lit.UseDomains, Lit.no) \in LinesOf(Unit, Lit.DHCPv4)

====
